---- MODULE Spec2Model ----
(***************************************************************************)
(* A model of the memory compression engine, src/memory/memory_compression *)
(* .py: the MemoryCompressor store (entries, summaries, recent ring and    *)
(* running totals), its eviction, search, summary and statistics, and the  *)
(* module-level functions that wrap it.                                    *)
(*                                                                         *)
(* Texts are TLA+ strings read character by character.  Scores are exact   *)
(* rationals kept as integers: an importance is held in units of 1/5000    *)
(* (ImportanceUnit), which is the common denominator of the weights the    *)
(* code uses, so that no comparison of the model depends on rounding.      *)
(* The clock is read in ticks of half a week (3.5 days), so that the       *)
(* one-week recency window of the eviction is WeekTicks = 2 ticks; two     *)
(* calls made within the same millisecond are two calls at the same tick.  *)
(***************************************************************************)
EXTENDS Integers, Sequences, FiniteSets, TLC

VARIABLES
    max_memory_size,       \* MemoryCompressor.max_memory_size
    compressed_memories,   \* dict memory_id -> CompressedMemory, in insertion order
    memory_summaries,      \* dict summary_id -> MemorySummary, in insertion order
    recent_memories,       \* deque(maxlen=100) of memory ids
    total_original_size,   \* running total of len(original_content)
    total_compressed_size, \* running total of len(compressed_content)
    compression_count,     \* number of compress_memory calls since construction
    now,                   \* the clock, in ticks
    last,                  \* the last public call: what the method did and what
                           \* the module-level function returned
    callers                \* the compress_memory calls in progress on other
                           \* threads: the statement each is at, and its locals

vars == <<max_memory_size, compressed_memories, memory_summaries,
          recent_memories, total_original_size, total_compressed_size,
          compression_count, now, last, callers>>

store == <<max_memory_size, compressed_memories, memory_summaries,
           recent_memories, total_original_size, total_compressed_size,
           compression_count>>

-----------------------------------------------------------------------------
(* Python's str operations, as the code uses them.                         *)

Min(a, b) == IF a <= b THEN a ELSE b
Max(a, b) == IF a >= b THEN a ELSE b

Ch(s, i) == SubSeq(s, i, i)

UpperLetters == "ABCDEFGHIJKLMNOPQRSTUVWXYZ"
LowerLetters == "abcdefghijklmnopqrstuvwxyz"
DigitChars   == "0123456789"

CharsOf(s) == {Ch(s, i) : i \in 1..Len(s)}

UpperSet == CharsOf(UpperLetters)
LowerSet == CharsOf(LowerLetters)
DigitSet == CharsOf(DigitChars)
LetterSet == UpperSet \cup LowerSet
WordSet == LetterSet \cup DigitSet \cup {"_"}                  \* \w
SpaceSet == {" ", "\t", "\n", "\r"}                              \* \s

\* str.lower() of one character
LowerCh(c) ==
    IF c \in UpperSet
    THEN LET i == CHOOSE k \in 1..Len(UpperLetters) : Ch(UpperLetters, k) = c
         IN  Ch(LowerLetters, i)
    ELSE c

RECURSIVE StrLower(_)
StrLower(s) ==
    IF Len(s) <= 1 THEN LowerCh(s)
    ELSE LET Halves(h) ==
                 StrLower(SubSeq(s, 1, h)) \o StrLower(SubSeq(s, h + 1, Len(s)))
         IN  Halves(Len(s) \div 2)

\* sub in s
StrContains(sub, s) ==
    \E i \in 1..(Len(s) - Len(sub) + 1) : SubSeq(s, i, i + Len(sub) - 1) = sub

\* s.startswith(p)
StartsWith(s, p) == Len(p) <= Len(s) /\ SubSeq(s, 1, Len(p)) = p

\* s at position i reads p
At(s, i, p) == i >= 1 /\ i + Len(p) - 1 <= Len(s) /\ SubSeq(s, i, i + Len(p) - 1) = p

\* s.strip()
RECURSIVE LStrip(_)
LStrip(s) ==
    IF s # "" /\ Ch(s, 1) \in SpaceSet THEN LStrip(SubSeq(s, 2, Len(s))) ELSE s

RECURSIVE RStrip(_)
RStrip(s) ==
    IF s # "" /\ Ch(s, Len(s)) \in SpaceSet
    THEN RStrip(SubSeq(s, 1, Len(s) - 1)) ELSE s

StrStrip(s) == RStrip(LStrip(s))

\* s.split(sep), sep one character: always at least one piece
\* the pieces of s are those of its two halves, the last piece of the first
\* half and the first piece of the second being one piece
RECURSIVE StrSplit(_, _)
StrSplit(s, sep) ==
    IF Len(s) <= 1 THEN (IF s = sep THEN <<"", "">> ELSE <<s>>)
    ELSE LET Joined(l, r) ==
                 SubSeq(l, 1, Len(l) - 1) \o <<l[Len(l)] \o r[1]>> \o Tail(r)
             Halves(h) ==
                 Joined(StrSplit(SubSeq(s, 1, h), sep),
                        StrSplit(SubSeq(s, h + 1, Len(s)), sep))
         IN  Halves(Len(s) \div 2)

\* sep.join(parts)
RECURSIVE StrJoin(_, _)
StrJoin(parts, sep) ==
    IF parts = <<>> THEN ""
    ELSE IF Len(parts) = 1 THEN parts[1]
    ELSE parts[1] \o sep \o StrJoin(Tail(parts), sep)

\* seq[:n] and seq[-n:] of Python, n >= 0
Take(seq, n) == SubSeq(seq, 1, Min(n, Len(seq)))
TakeLast(seq, n) ==
    IF n = 0 THEN seq ELSE SubSeq(seq, Max(1, Len(seq) - n + 1), Len(seq))

\* the elements of a sequence
Range(seq) == {seq[i] : i \in 1..Len(seq)}

\* sum(numbers)
RECURSIVE SumSeq(_)
SumSeq(numbers) ==
    IF numbers = <<>> THEN 0 ELSE Head(numbers) + SumSeq(Tail(numbers))

\* the decimal text of a natural number, str(n)
RECURSIVE NatStr(_)
NatStr(n) ==
    IF n < 10 THEN Ch(DigitChars, n + 1)
    ELSE NatStr(n \div 10) \o Ch(DigitChars, (n % 10) + 1)

-----------------------------------------------------------------------------
(* The regular expressions of the code, each as the place where a match    *)
(* that starts at position p ends (0: no match starts at p), found the way *)
(* Python's backtracking matcher finds it: longest repetition first.       *)

MinOf(S) == CHOOSE x \in S : \A y \in S : x <= y
MaxOf(S) == CHOOSE x \in S : \A y \in S : x >= y

\* the last index e such that s[p..e] lies in chars (p - 1: none)
RunEnd(s, p, chars) ==
    LET Before(stops) ==
            IF stops = {} THEN Max(Len(s), p - 1) ELSE MinOf(stops) - 1
    IN  Before({i \in p..Len(s) : Ch(s, i) \notin chars})

\* the first index >= p where s reads c (0: none)
FirstAt(s, p, c) ==
    LET First(hits) == IF hits = {} THEN 0 ELSE MinOf(hits)
    IN  First({i \in p..Len(s) : Ch(s, i) = c})

\* the end of the line that holds position p ('.' matches no newline)
LineEnd(s, p) ==
    LET Before(nl) == IF nl = 0 THEN Len(s) ELSE nl - 1
    IN  Before(FirstAt(s, p, "\n"))

\* the last index i in p..LineEnd(s, p) where s reads lit at i (0: none)
LastOnLine(s, p, lit) ==
    LET Last(hits) == IF hits = {} THEN 0 ELSE MaxOf(hits)
    IN  Last({i \in p..(LineEnd(s, p) - Len(lit) + 1) : At(s, i, lit)})

\* ^ under re.MULTILINE
LineStart(s, p) == p = 1 \/ Ch(s, p - 1) = "\n"

\* \b at the gap before position p
WordBoundary(s, p) ==
    LET before == p > 1 /\ p - 1 <= Len(s) /\ Ch(s, p - 1) \in WordSet
        after  == p >= 1 /\ p <= Len(s) /\ Ch(s, p) \in WordSet
    IN  before # after

\* kw\s+\w+ : the start and end of the \w+ group, <<0, 0>> when no match
KeywordName(s, p, kw) ==
    LET Name(b) ==          \* b: where \s+ ends
            LET Group(c) == IF c >= b + 1 THEN <<b + 1, c>> ELSE <<0, 0>>
            IN  IF b >= p + Len(kw) THEN Group(RunEnd(s, b + 1, WordSet))
                ELSE <<0, 0>>
    IN  IF ~At(s, p, kw) THEN <<0, 0>>
        ELSE Name(RunEnd(s, p + Len(kw), SpaceSet))

\* (\w+)\s*= : <<end of the word, position of "=">>, <<0, 0>> when no match
Assignment(s, p) ==
    LET Word(c) ==          \* c: where \w+ ends
            LET Equals(d) == IF At(s, d + 1, "=") THEN <<c, d + 1>> ELSE <<0, 0>>
            IN  IF c >= p THEN Equals(RunEnd(s, c + 1, SpaceSet)) ELSE <<0, 0>>
    IN  Word(RunEnd(s, p, WordSet))

\* kw\s+.*: : \s+ gives back one character at a time until a ':' follows on
\* the line where it stopped
KeywordColon(s, p, kw) ==
    LET Colon(ok) == IF ok = {} THEN 0 ELSE LastOnLine(s, MaxOf(ok) + 1, ":")
    IN  IF ~At(s, p, kw) THEN 0
        ELSE Colon({n \in (p + Len(kw))..RunEnd(s, p + Len(kw), SpaceSet) :
                       LastOnLine(s, n + 1, ":") # 0})

\* [A-Z][a-zA-Z]*Error : the star gives back until "Error" follows
ErrorName(s, p) ==
    LET Last(ends) == IF ends = {} THEN 0 ELSE MaxOf(ends)
    IN  IF ~(p <= Len(s) /\ Ch(s, p) \in UpperSet) THEN 0
        ELSE Last({e \in (p + 5)..RunEnd(s, p + 1, LetterSet) :
                      At(s, e - 4, "Error")})

\* open([^close]+)close with open and close single characters after a prefix
Delimited(s, p, prefix, close) ==
    LET Close(q) == IF q > p + Len(prefix) THEN q ELSE 0
    IN  IF ~At(s, p, prefix) THEN 0
        ELSE Close(FirstAt(s, p + Len(prefix), close))

\* \b[A-Z][a-zA-Z]+\b
TechnicalTerm(s, p) ==
    LET Term(r) == IF r >= p + 1 /\ WordBoundary(s, r + 1) THEN r ELSE 0
    IN  IF ~(p <= Len(s) /\ Ch(s, p) \in UpperSet /\ WordBoundary(s, p)) THEN 0
        ELSE Term(RunEnd(s, p + 1, LetterSet))

\* #.*TODO|FIXME|NOTE
IntentComment(s, p) ==
    LET Todo(t) ==
            IF t # 0 THEN t + 3
            ELSE IF At(s, p, "FIXME") THEN p + 4
            ELSE IF At(s, p, "NOTE") THEN p + 3
            ELSE 0
    IN  Todo(IF At(s, p, "#") THEN LastOnLine(s, p + 1, "TODO") ELSE 0)

\* the span <<group start, group end, match end>> of pattern pat at p
MatchAt(pat, s, p) ==
    LET Group(m) == <<m[1], m[2], m[2]>>
        Variable(m) == <<IF m[2] = 0 THEN 0 ELSE p, m[1], m[2]>>
        Whole(e) == <<p, e, e>>
        Inside(q, open) == <<p + open, IF q = 0 THEN 0 ELSE q - 1, q>>
    IN  CASE pat \in {"def", "class", "import"} -> Group(KeywordName(s, p, pat))
          [] pat = "variable" ->
                Variable(IF LineStart(s, p) THEN Assignment(s, p) ELSE <<0, 0>>)
          [] pat \in {"if", "for", "while"} -> Whole(KeywordColon(s, p, pat))
          [] pat = "try" -> Whole(IF At(s, p, "try:") THEN p + 3 ELSE 0)
          [] pat = "intent" -> Whole(IntentComment(s, p))
          [] pat = "error" -> Whole(ErrorName(s, p))
          [] pat = "file" -> Inside(Delimited(s, p, "File \"", "\""), 6)
          [] pat = "quoted" -> Inside(Delimited(s, p, "\"", "\""), 1)
          [] pat = "technical" -> Whole(TechnicalTerm(s, p))

\* re.findall(pat, s): the groups of the successive non-overlapping matches,
\* each the leftmost match that starts at p or later
RECURSIVE FindAllFrom(_, _, _)
FindAllFrom(pat, s, p) ==
    LET Found(m) == <<SubSeq(s, m[1], m[2])>> \o FindAllFrom(pat, s, m[3] + 1)
        Leftmost(starts) ==
            IF starts = {} THEN <<>> ELSE Found(MatchAt(pat, s, MinOf(starts)))
    IN  Leftmost({i \in p..Len(s) : MatchAt(pat, s, i)[3] # 0})

FindAll(pat, s) == FindAllFrom(pat, s, 1)

-----------------------------------------------------------------------------
(* The compression strategies.                                             *)

AnyIn(words, s) == \E w \in words : StrContains(w, s)

\* line.strip() of every piece
Stripped(pieces) == [i \in 1..Len(pieces) |-> StrStrip(pieces[i])]

\* the stripped lines that are in keep, in order
KeptLines(stripped, keep) == SelectSeq(stripped, LAMBDA line : line \in keep)

ConversationWords ==
    {"understand", "need", "should", "must", "important", "key", "solution",
     "problem"}

CompressConversation(content) ==
    LET sentences == StrSplit(content, ".")
        Key(sentence) == Len(sentence) > 10
                         /\ AnyIn(ConversationWords, StrLower(sentence))
        stripped == Stripped(sentences)
        key_sentences ==
            KeptLines(stripped, {line \in Range(stripped) : Key(line)})
        compressed ==
            IF Len(sentences) > 10
            THEN Take(sentences, 3) \o <<"[...]">> \o key_sentences
                 \o <<"[...]">> \o TakeLast(sentences, 3)
            ELSE sentences
    IN  StrJoin(compressed, ". ")

\* re.match of each of self.code_patterns on a stripped line
CodePatternMatch(line) ==
    \/ KeywordName(line, 1, "import")[2] # 0             \* import
    \/ KeywordName(line, 1, "from")[2] # 0
    \/ KeywordName(line, 1, "def")[2] # 0                \* function_def
    \/ KeywordName(line, 1, "class")[2] # 0              \* class_def
    \/ Assignment(line, 1)[2] # 0                        \* variable_assignment
    \/ /\ StartsWith(line, "Traceback")                  \* error_traceback
       /\ \E i \in 10..Len(line) : At(line, i, "Error:")
    \/ /\ StartsWith(line, "File \"")
       /\ \E q \in 7..Len(line) :
              /\ Ch(line, q) = "\""
              /\ \E i \in (q + 1)..Len(line) :
                     At(line, i, "line ") /\ i + 5 <= Len(line)
                     /\ Ch(line, i + 5) \in DigitSet
    \/ \E w \in {"PASSED", "FAILED", "ERROR", "SKIPPED"} : StartsWith(line, w)

CompressCode(code) ==
    LET lines == StrSplit(code, "\n")
        Keep(line) == line # "" /\ ~StartsWith(line, "#") /\ CodePatternMatch(line)
        stripped == Stripped(lines)
        compressed_lines ==
            KeptLines(stripped, {line \in Range(stripped) : Keep(line)})
        header == "# Code compressed: " \o NatStr(Len(lines)) \o " -> "
                  \o NatStr(Len(compressed_lines)) \o " lines"
    IN  StrJoin(IF Len(lines) > Len(compressed_lines) * 2
                THEN <<header>> \o compressed_lines
                ELSE compressed_lines, "\n")

ErrorLineWords == {"error:", "exception:", "traceback", "file \"", "line"}

\* _compress_error without the limit of 20 lines
CompressErrorUnlimited(error_content) ==
    LET lines == StrSplit(error_content, "\n")
        Keep(line) ==
            \/ AnyIn(ErrorLineWords, StrLower(line))
            \/ \E i \in 1..Len(line) :
                   /\ Ch(line, i) \in UpperSet
                   /\ LET r == RunEnd(line, i + 1, LowerSet)
                      IN  r >= i + 1 /\ At(line, r + 1, "Error:")
        stripped == Stripped(lines)
        key_lines ==
            KeptLines(stripped, {line \in Range(stripped) : Keep(line)})
    IN  IF key_lines # <<>> THEN StrJoin(key_lines, "\n")
        ELSE SubSeq(error_content, 1, Min(500, Len(error_content))) \o "..."

CompressError(error_content) ==
    LET lines == StrSplit(error_content, "\n")
        Keep(line) ==
            \/ AnyIn(ErrorLineWords, StrLower(line))
            \/ \E i \in 1..Len(line) :               \* [A-Z][a-z]+Error:
                   /\ Ch(line, i) \in UpperSet
                   /\ LET r == RunEnd(line, i + 1, LowerSet)
                      IN  r >= i + 1 /\ At(line, r + 1, "Error:")
        stripped == Stripped(lines)
        key_lines ==
            KeptLines(stripped, {line \in Range(stripped) : Keep(line)})
        limited ==
            IF Len(key_lines) > 20
            THEN Take(key_lines, 10)
                 \o <<"[... " \o NatStr(Len(key_lines) - 20)
                      \o " more error lines ...]">>
                 \o TakeLast(key_lines, 10)
            ELSE key_lines
    IN  IF limited # <<>> THEN StrJoin(limited, "\n")
        ELSE SubSeq(error_content, 1, Min(500, Len(error_content))) \o "..."

SolutionWords ==
    {"step", "solution", "fix", "implement", "change", "add", "remove"}

\* _compress_solution without the introduction and the conclusion
CompressSolutionStepsOnly(solution) ==
    LET lines == StrSplit(solution, "\n")
        Keep(line) ==
            \/ LET d == RunEnd(line, 1, DigitSet)
               IN  d >= 1 /\ At(line, d + 1, ".")
            \/ /\ Len(line) >= 2
               /\ Ch(line, 1) \in {"-", "*", "+"}
               /\ Ch(line, 2) \in SpaceSet
            \/ AnyIn(SolutionWords, StrLower(line))
        stripped == Stripped(lines)
    IN  StrJoin(KeptLines(stripped, {line \in Range(stripped) : Keep(line)}), "\n")

CompressSolution(solution) ==
    LET lines == StrSplit(solution, "\n")
        Keep(line) ==
            \/ LET d == RunEnd(line, 1, DigitSet)       \* ^\d+\.
               IN  d >= 1 /\ At(line, d + 1, ".")
            \/ /\ Len(line) >= 2                        \* ^[-*+]\s
               /\ Ch(line, 1) \in {"-", "*", "+"}
               /\ Ch(line, 2) \in SpaceSet
            \/ AnyIn(SolutionWords, StrLower(line))
        stripped == Stripped(lines)
        key_steps ==
            KeptLines(stripped, {line \in Range(stripped) : Keep(line)})
        compressed ==
            IF Len(lines) > Len(key_steps) * 2
            THEN Take(lines, 2) \o key_steps \o TakeLast(lines, 2)
            ELSE key_steps
    IN  StrJoin(compressed, "\n")

\* _compress_generic cutting at 500 characters
CompressGenericHead(content) == SubSeq(content, 1, Min(500, Len(content)))

CompressGeneric(content) ==
    IF Len(content) > 500
    THEN SubSeq(content, 1, 250) \o "\n[... compressed ...]\n"
         \o SubSeq(content, Len(content) - 249, Len(content))
    ELSE content

CompressByType(content, memory_type) ==
    CASE memory_type = "conversation" -> CompressConversation(content)
      [] memory_type = "code"         -> CompressCode(content)
      [] memory_type = "error"        -> CompressError(content)
      [] memory_type = "solution"     -> CompressSolution(content)
      [] OTHER                        -> CompressGeneric(content)

-----------------------------------------------------------------------------
(* The scoring engine and the entity extractor.                            *)

\* _calculate_code_complexity, in hundredths
CalculateCodeComplexity(code) ==
    LET complexity_indicators ==
            <<<<"def", 10>>, <<"class", 15>>, <<"if", 5>>, <<"for", 5>>,
              <<"while", 5>>, <<"try", 10>>, <<"import", 2>>, <<"intent", 10>>>>
        factors == [i \in 1..Len(complexity_indicators) |->
                       Min(Len(FindAll(complexity_indicators[i][1], code))
                           * complexity_indicators[i][2], 50)]
    IN  Min(SumSeq(factors), 100)

ErrorKeywords == {"error", "exception", "failed", "traceback", "bug", "fix"}

\* A caller's context: None and {} alike carry no relevance; a relevance is a
\* number, held in tenths, or a value that is no number.
NoContext == [has_relevance |-> FALSE, numeric |-> TRUE, relevance |-> 0]
Relevance(r) == [has_relevance |-> TRUE, numeric |-> TRUE, relevance |-> r]
TextRelevance == [has_relevance |-> TRUE, numeric |-> FALSE, relevance |-> 0]

\* _calculate_importance, in units of 1/5000:
\*   min(len/1000, 1) * 0.2            = min(len, 1000) units
\*   (keywords found / 6) * 0.3        = 250 units a keyword
\*   complexity * 0.2                  = 10 units a hundredth
\*   context['relevance'] * 0.2        = 100 units a tenth
\*   0.1                               = 500 units
CalculateImportance(content, memory_type, context) ==
    LET lower == StrLower(content)
        found == Cardinality({k \in ErrorKeywords : StrContains(k, lower)})
    IN  Min(Len(content), 1000)
        + found * 250
        + (IF memory_type = "code" THEN CalculateCodeComplexity(content) * 10 ELSE 0)
        + (IF context.has_relevance THEN context.relevance * 100 ELSE 0)
        + 500

Prefixed(prefix, names) == {prefix \o names[i] : i \in 1..Len(names)}

\* the entities of _extract_entities before list(set(...))[:20]
FoundEntities(content, memory_type) ==
    LET patterns ==
            CASE memory_type = "code" -> {"def", "class", "variable", "import"}
              [] memory_type = "error" -> {"error", "file"}
              [] OTHER -> {"quoted", "technical"}
        matches == [pat \in patterns |-> FindAll(pat, content)]
    IN  CASE memory_type = "code" ->
                Prefixed("function:", matches["def"])
                \cup Prefixed("class:", matches["class"])
                \cup Prefixed("variable:", matches["variable"])
                \cup Prefixed("module:", matches["import"])
          [] memory_type = "error" ->
                Range(matches["error"]) \cup Prefixed("file:", matches["file"])
          [] OTHER ->
                \* no TLA+ string holds a backtick: a model text has no code span
                Range(matches["quoted"]) \cup Range(Take(matches["technical"], 10))

\* list(a_set)[:n]: the whole set when it has at most n members, otherwise n
\* of them, whichever the iteration order of the set puts first
RECURSIVE Sublists(_, _)
Sublists(entities, n) ==
    IF Cardinality(entities) <= n THEN {entities}
    ELSE IF n = 0 THEN {{}}
    ELSE LET With(e, rest) ==
                 Sublists(rest, n) \cup {kept \cup {e} : kept \in Sublists(rest, n - 1)}
             Split(e) == With(e, entities \ {e})
         IN  Split(CHOOSE e \in entities : TRUE)

\* _extract_entities without the limit
ExtractEntitiesAll(content, memory_type) == {FoundEntities(content, memory_type)}

\* _extract_entities: list(set(entities))[:20] keeps the whole set when it has
\* at most 20 members and otherwise 20 of them, in the set's iteration order,
\* which the code does not control: any 20.
ExtractEntities(content, memory_type) ==
    Sublists(FoundEntities(content, memory_type), 20)

-----------------------------------------------------------------------------
(* Bounds of the model and the inputs the calls draw from.                 *)

MaxTime == 1             \* the clock runs from 0 to MaxTime ticks
MaxCompressions == 3     \* compress_memory calls on one MemoryCompressor
MaxCapacity == 2         \* max_memory_size of the first store is in 0..MaxCapacity
MaxSummaries == 1        \* summaries one MemoryCompressor stores
MaxGlobalCompressions == 1   \* compress_memory calls on the module's own store
MaxGlobalSummaries == 1      \* generate_memory_summary calls on that store
MaxRingCompressions == 102   \* compress_memory calls that fill the recent ring
MaxSolutionCompressions == 3 \* compress_memory calls before a summary with decisions
MaxCallers == 2              \* threads that call compress_memory on one store

DefaultMaxMemorySize == 1000   \* MemoryCompressor.__init__, max_memory_size
RecentMaxLen == 100            \* deque(maxlen=100)
WeekTicks == 2                 \* 7 * 24 * 3600 seconds, in ticks of 3.5 days

\* An argument that should be a str: a text, or a value that is none (a number)
Text(t) == [is_str |-> TRUE, text |-> t]
NotText == [is_str |-> FALSE, text |-> ""]

\* s repeated n times
RECURSIVE Repeat(_, _)
Repeat(s, n) ==
    IF n = 0 THEN "" ELSE IF n = 1 THEN s
    ELSE Repeat(s, n \div 2) \o Repeat(s, n - n \div 2)

\* a text of 501 characters
LongText == Repeat("a", 250) \o "M" \o Repeat("b", 250)

\* a traceback of 25 lines, every one a line _compress_error keeps
Traceback25 ==
    StrJoin(<<"Traceback (most recent call last):">>
            \o [i \in 1..23 |-> "  File \"m.py\", line " \o NatStr(i) \o ", in f"]
            \o <<"KeyError: x">>, "\n")

\* eleven lines of more than 20 characters that quote 21 different strings
QuotedNames ==
    <<"aa", "ab", "ac", "ad", "ae", "af", "ag", "ah", "ai", "aj", "ak",
      "ba", "bb", "bc", "bd", "be", "bf", "bg", "bh", "bi", "bj">>
ManyQuoted ==
    StrJoin([i \in 1..10 |->
                "pair \"" \o QuotedNames[2 * i - 1] \o "\" with \""
                \o QuotedNames[2 * i] \o "\" in the list"]
            \o <<"single \"" \o QuotedNames[21] \o "\" closes the list">>, "\n")

\* two lines of more than 20 characters; a solution none of whose lines is
\* that long; a solution of four numbered steps, each longer than 20
TwoLongLines == "the parser reads the whole file\nthen it builds the index table"
ShortSolution == "fix it"
FourSteps ==
    "1. open the configuration file\n2. change the timeout to ten\n"
    \o "3. restart the worker process\n4. check the log for errors"

Texts ==
    {"", " ", ".", "hello", "fix bug", "File \"a.py\"\nKeyError: x",
     LongText, Traceback25, ManyQuoted, TwoLongLines, ShortSolution, FourSteps}
\* the four kinds _compress_by_type knows, "generic", and one it does not know
KnownKinds == {"conversation", "code", "error", "solution"}
Kinds == KnownKinds \cup {"generic", "note"}
Contexts == {NoContext, Relevance(20), Relevance(-20), TextRelevance}

\* the arguments of one compress_memory call
Call(content, memory_type, context) ==
    [content |-> content, type |-> memory_type, context |-> context]
Calls ==
    {Call(Text(""), "generic", NoContext),
     Call(Text("fix bug"), "generic", NoContext),
     Call(Text("fix bug"), "error", Relevance(20)),
     Call(Text("File \"a.py\"\nKeyError: x"), "error", NoContext),
     Call(Text("fix bug"), "generic", TextRelevance),
     Call(NotText, "generic", NoContext)}

\* one member of the list given to batch_compress_memories: a dict, with the
\* defaults of memory.get filled in, or a value that is no dict
Item(content, memory_type, context) ==
    [is_dict |-> TRUE, content |-> content, type |-> memory_type,
     context |-> context]
NotDict ==
    [is_dict |-> FALSE, content |-> Text(""), type |-> "generic",
     context |-> NoContext]
Batches ==
    {<<>>,
     <<Item(Text("fix bug"), "generic", NoContext),
       Item(Text(""), "generic", NoContext)>>,
     <<Item(Text("File \"a.py\"\nKeyError: x"), "error", NoContext), NotDict>>,
     <<Item(Text(""), "generic", NoContext),
       Item(Text("File \"a.py\"\nKeyError: x"), "error", NoContext),
       Item(Text("fix bug"), "generic", NoContext)>>}

\* the arguments of one search_compressed_memories call
NoFilter == ""           \* memory_type=None
Query(query, memory_type, limit) ==
    [query |-> query, type |-> memory_type, limit |-> limit]
Searches ==
    {Query(Text("zzz"), NoFilter, 2),
     Query(Text("bug"), NoFilter, 0),
     Query(Text("bug"), NoFilter, 1),
     Query(Text("BUG"), NoFilter, 2),
     Query(Text("file:"), "error", 2),
     Query(NotText, NoFilter, 2)}
SummaryTypes == {"session"}

\* hashlib.md5(content.encode()).hexdigest()[:8] of the texts of the model
Md5Prefix(content) ==
    CASE content = "" -> "d41d8cd9"
      [] content = "fix bug" -> "8e800df5"
      [] content = "File \"a.py\"\nKeyError: x" -> "9feb73ce"
      [] content = " " -> "7215ee9c"
      [] content = "." -> "5058f1af"
      [] content = "hello" -> "5d41402a"
      [] content = LongText -> "7ef464ba"
      [] content = Traceback25 -> "dd63536c"
      [] content = ManyQuoted -> "06f67a1f"
      [] content = TwoLongLines -> "557c49fa"
      [] content = ShortSolution -> "f2115391"
      [] content = FourSteps -> "87cbb2aa"

\* The pure functions on the inputs of the model, each computed once: what
\* _compress_by_type, _extract_entities and _calculate_importance return for
\* every text, kind and context the calls draw from.
NumericContexts == {context \in Contexts : context.numeric}

CompressedContent ==
    [t \in Texts |-> [k \in Kinds |-> CompressByType(t, k)]]
KeyEntities ==
    [t \in Texts |-> [k \in Kinds |-> ExtractEntities(t, k)]]
ImportanceScore ==
    [t \in Texts |-> [k \in Kinds |-> [c \in NumericContexts |->
        CalculateImportance(t, k, c)]]]

\* query.lower() in text.lower(), for every query and every str searched
SearchedTexts ==
    {CompressedContent[t][k] : t \in Texts, k \in Kinds}
    \cup UNION {UNION KeyEntities[t][k] : t \in Texts, k \in Kinds}
QueryFound ==
    [q \in {search.query.text : search \in Searches} |->
        LET query_lower == StrLower(q)
        IN  {s \in SearchedTexts : StrContains(query_lower, StrLower(s))}]

-----------------------------------------------------------------------------
(* The store: MemoryCompressor.                                            *)

\* a dict in insertion order is the sequence of its values
MemoryIds(memories) == {memories[i].memory_id : i \in 1..Len(memories)}
SummaryIds(summaries) == {summaries[i].summary_id : i \in 1..Len(summaries)}

\* dict.get(memory_id): the entries found, none or one
GetMemory(memories, memory_id) ==
    {memories[i] : i \in {j \in 1..Len(memories) : memories[j].memory_id = memory_id}}

\* get_summary
GetSummary(summaries, summary_id) ==
    {summaries[i] : i \in {j \in 1..Len(summaries) : summaries[j].summary_id = summary_id}}

\* dict[key] = value, the key found at the indices in at: a key already there
\* keeps its place
DictSet(dict, at, value) ==
    IF at # {}
    THEN [i \in 1..Len(dict) |-> IF i \in at THEN value ELSE dict[i]]
    ELSE Append(dict, value)

MemoryAt(memories, memory_id) ==
    {i \in 1..Len(memories) : memories[i].memory_id = memory_id}
SummaryAt(summaries, summary_id) ==
    {i \in 1..Len(summaries) : summaries[i].summary_id = summary_id}

\* the append of a deque without maxlen
DequeAppendUnbounded(deque, x) == Append(deque, x)

\* deque(maxlen=100).append
DequeAppend(deque, x) ==
    IF Len(deque) >= RecentMaxLen THEN Append(Tail(deque), x) ELSE Append(deque, x)

\* _generate_memory_id: f"mem_{content_hash[:8]}_{timestamp}", by its two parts
GenerateMemoryId(content, t) == <<Md5Prefix(content), t>>

\* the order of Python on two str of lower-case hexadecimal digits
HexRank(c) == CHOOSE k \in 1..16 : Ch("0123456789abcdef", k) = c
RECURSIVE HexLess(_, _)
HexLess(a, b) ==
    IF a = "" \/ b = "" THEN a = "" /\ b # ""
    ELSE IF Ch(a, 1) = Ch(b, 1)
         THEN HexLess(SubSeq(a, 2, Len(a)), SubSeq(b, 2, Len(b)))
         ELSE HexRank(Ch(a, 1)) < HexRank(Ch(b, 1))

\* memory ids as str: the hash decides, then the time (of equal length)
IdLess(a, b) == HexLess(a[1], b[1]) \/ (a[1] = b[1] /\ a[2] < b[2])

\* combined_score of _cleanup_old_memories at time t, in units of
\* 1 / (10 * 5000 * WeekTicks):
\*   importance * 0.7 + max(0, 1 - age / week) * 0.3
CombinedScore(memory, t) ==
    7 * memory.importance_score * WeekTicks
    + 3 * 5000 * Max(0, WeekTicks - (t - memory.timestamp))

\* the sort of _cleanup_old_memories with reverse=True: the best first
ScoredBeforeReversed(a, b, t) ==
    \/ CombinedScore(a, t) > CombinedScore(b, t)
    \/ CombinedScore(a, t) = CombinedScore(b, t) /\ IdLess(b.memory_id, a.memory_id)

\* (combined_score, memory_id) tuples, as list.sort() orders them
ScoredBefore(a, b, t) ==
    \/ CombinedScore(a, t) < CombinedScore(b, t)
    \/ CombinedScore(a, t) = CombinedScore(b, t) /\ IdLess(a.memory_id, b.memory_id)

\* _cleanup_old_memories with to_remove one short
ToEvictOneFewer(memories, max_size, t) ==
    LET to_remove == Len(memories) - max_size - 1
    IN  {m \in Range(memories) :
            Cardinality({o \in Range(memories) : ScoredBefore(o, m, t)}) < to_remove}

\* a _cleanup_old_memories that does not rank the entry stored last
ToEvictSparingNewest(memories, max_size, t) ==
    LET to_remove == Len(memories) - max_size
        older == Range(Take(memories, Len(memories) - 1))
    IN  {m \in older :
            Cardinality({o \in older : ScoredBefore(o, m, t)}) < to_remove}

\* the entries _cleanup_old_memories deletes: the first to_remove of the sort
ToEvict(memories, max_size, t) ==
    LET to_remove == Len(memories) - max_size
    IN  {m \in Range(memories) :
            Cardinality({o \in Range(memories) : ScoredBefore(o, m, t)}) < to_remove}

RECURSIVE Without(_, _)
Without(seq, gone) ==
    IF seq = <<>> THEN <<>>
    ELSE (IF Head(seq) \in gone THEN <<>> ELSE <<Head(seq)>>)
         \o Without(Tail(seq), gone)

OriginalSizes(memories) ==
    SumSeq([i \in 1..Len(memories) |-> Len(memories[i].original_content)])
CompressedSizes(memories) ==
    SumSeq([i \in 1..Len(memories) |-> Len(memories[i].compressed_content)])

\* The fields of a MemoryCompressor that compress_memory writes
StoreOf(memories, recent, original, compressed, count) ==
    [compressed_memories |-> memories, recent_memories |-> recent,
     total_original_size |-> original, total_compressed_size |-> compressed,
     compression_count |-> count]

\* _cleanup_old_memories
CleanupOldMemories(st, max_size, t) ==
    IF Len(st.compressed_memories) <= max_size THEN st
    ELSE LET Removed(gone) ==
                 SelectSeq(st.compressed_memories, LAMBDA m : m \in gone)
             Delete(gone, removed) ==
                 [st EXCEPT
                    !.compressed_memories = Without(@, gone),
                    !.total_original_size = @ - OriginalSizes(removed),
                    !.total_compressed_size = @ - CompressedSizes(removed)]
             Evict(gone) == Delete(gone, Removed(gone))
         IN  Evict(ToEvict(st.compressed_memories, max_size, t))

\* MemoryCompressor.compress_memory at time t on store st. key_entities is the
\* list _extract_entities returned.  The result: the exception raised ("none"
\* when it returned), the id returned and the store afterwards.
CompressMemory(st, max_size, t, content, memory_type, context, key_entities) ==
    IF ~content.is_str
    THEN [raised |-> "AttributeError", memory_id |-> <<>>, store |-> st]
    ELSE IF context.has_relevance /\ ~context.numeric
    THEN [raised |-> "TypeError", memory_id |-> <<>>, store |-> st]
    ELSE
    LET text == content.text
        memory_id == GenerateMemoryId(text, t)
        CompressedMemory(compressed_content) ==
            [memory_id |-> memory_id,
             timestamp |-> t,
             memory_type |-> memory_type,
             original_content |-> text,
             compressed_content |-> compressed_content,
             key_entities |-> key_entities,
             importance_score |-> ImportanceScore[text][memory_type][context],
             compression_ratio |-> IF text # ""
                                   THEN <<Len(compressed_content), Len(text)>>
                                   ELSE <<1, 1>>,
             metadata |-> context]
        Stored(compressed_memory) ==
            StoreOf(DictSet(st.compressed_memories,
                            MemoryAt(st.compressed_memories, memory_id),
                            compressed_memory),
                    DequeAppend(st.recent_memories, memory_id),
                    st.total_original_size + Len(text),
                    st.total_compressed_size
                        + Len(compressed_memory.compressed_content),
                    st.compression_count + 1)
        Cleaned(stored) ==
            [raised |-> "none", memory_id |-> memory_id,
             store |-> IF Len(stored.compressed_memories) > max_size
                       THEN CleanupOldMemories(stored, max_size, t)
                       ELSE stored]
    IN  Cleaned(Stored(CompressedMemory(CompressedContent[text][memory_type])))

\* the key_entities lists _extract_entities can return for a content
EntityLists(content, memory_type) ==
    IF content.is_str THEN KeyEntities[content.text][memory_type] ELSE {{}}

\* a loop that compresses every item
TruthyAlways(content) == TRUE

\* if content: a str that is not empty, a number that is not 0
Truthy(content) == ~content.is_str \/ content.text # ""

\* the loop of batch_compress_memories at time t over the items left, with
\* the ids collected so far: every way it can end
RECURSIVE BatchCompressMemories(_, _, _, _, _)
BatchCompressMemories(st, max_size, t, memories, memory_ids) ==
    IF memories = <<>>
    THEN {[raised |-> "none", memory_ids |-> memory_ids, store |-> st]}
    ELSE LET memory == Head(memories)
         IN  IF ~memory.is_dict
             THEN {[raised |-> "AttributeError", memory_ids |-> memory_ids,
                    store |-> st]}
             ELSE IF ~Truthy(memory.content)
             THEN BatchCompressMemories(st, max_size, t, Tail(memories), memory_ids)
             ELSE LET Rest(out) ==
                          IF out.raised # "none"
                          THEN {[raised |-> out.raised, memory_ids |-> memory_ids,
                                 store |-> out.store]}
                          ELSE BatchCompressMemories(out.store, max_size, t,
                                   Tail(memories),
                                   Append(memory_ids, out.memory_id))
                  IN  UNION {
                          Rest(CompressMemory(st, max_size, t, memory.content,
                                              memory.type, memory.context,
                                              key_entities)) :
                          key_entities \in EntityLists(memory.content, memory.type)}

\* search_score of search_memories for one entry, in units of 1/50000:
\* 1.0 for the content, 0.5 for the first entity that matches, importance * 0.3
SearchScore(memory, query) ==
    LET Score(found) ==
            (IF memory.compressed_content \in found THEN 50000 ELSE 0)
            + (IF \E entity \in memory.key_entities : entity \in found
               THEN 25000 ELSE 0)
            + memory.importance_score * 3
    IN  Score(QueryFound[query])

\* results.sort(key=lambda x: x[0]) without reverse=True: the lesser first
SortByScoreAscending(scored) ==
    LET n == Len(scored)
        Rank(i) == Cardinality({j \in 1..n :
                       \/ scored[j][1] < scored[i][1]
                       \/ scored[j][1] = scored[i][1] /\ j < i})
    IN  [r \in 1..n |-> scored[CHOOSE i \in 1..n : Rank(i) = r - 1]]

\* results.sort(key=lambda x: x[0], reverse=True): by score, the greater
\* first, equal scores in the order they had
SortByScoreDescending(scored) ==
    LET n == Len(scored)
        Rank(i) == Cardinality({j \in 1..n :
                       \/ scored[j][1] > scored[i][1]
                       \/ scored[j][1] = scored[i][1] /\ j < i})
    IN  [r \in 1..n |-> scored[CHOOSE i \in 1..n : Rank(i) = r - 1]]

\* the pairs search_memories collects when it does not look at the kind
SearchCandidatesUnfiltered(memories, query, memory_type) ==
    LET Scored(passing) ==
            [i \in 1..Len(passing) |->
                <<SearchScore(passing[i], query), passing[i]>>]
    IN  SelectSeq(Scored(memories), LAMBDA pair : pair[1] > 0)

\* the (search_score, memory) pairs search_memories collects
SearchCandidates(memories, query, memory_type) ==
    LET Scored(passing) ==
            [i \in 1..Len(passing) |->
                <<SearchScore(passing[i], query), passing[i]>>]
    IN  SelectSeq(Scored(SelectSeq(memories,
                             LAMBDA m : ~(memory_type # NoFilter
                                          /\ m.memory_type # memory_type))),
                  LAMBDA pair : pair[1] > 0)

\* MemoryCompressor.search_memories, limit >= 0
SearchMemories(memories, query, memory_type, limit) ==
    IF ~query.is_str THEN [raised |-> "AttributeError", memories |-> <<>>]
    ELSE LET Memories(top) == [i \in 1..Len(top) |-> top[i][2]]
             results == SortByScoreDescending(
                            SearchCandidates(memories, query.text,
                                             memory_type))
         IN  [raised |-> "none", memories |-> Memories(Take(results, limit))]

\* the key_points and decisions generate_summary gathers, entry by entry
RECURSIVE GatherPoints(_, _, _)
GatherPoints(memories, key_points, decisions) ==
    IF memories = <<>> THEN [key_points |-> key_points, decisions |-> decisions]
    ELSE LET memory == Head(memories)
             Long(stripped) ==
                 KeptLines(stripped, {line \in Range(stripped) : Len(line) > 20})
             Decided(last3) ==
                 [i \in 1..Len(last3) |-> memory.memory_type \o ":" \o last3[i]]
             Gather(points) ==
                 GatherPoints(Tail(memories), points,
                     IF memory.memory_type = "solution"
                     THEN decisions \o Decided(TakeLast(points, 3))
                     ELSE decisions)
         IN  Gather(key_points
                    \o Long(Stripped(StrSplit(memory.compressed_content, "\n"))))

RECURSIVE UnionOf(_)
UnionOf(sets) == IF sets = <<>> THEN {} ELSE Head(sets) \cup UnionOf(Tail(sets))

\* the entries generate_summary collects for memory_ids
Resolve(memories, memory_ids) ==
    LET present == SelectSeq(memory_ids, LAMBDA mid : mid \in MemoryIds(memories))
    IN  [i \in 1..Len(present) |->
            CHOOSE m \in Range(memories) : m.memory_id = present[i]]

\* list(entities)[:15]: the whole set, or any 15 of it
SummaryEntities(memories) ==
    Sublists(UnionOf([i \in 1..Len(memories) |-> memories[i].key_entities]), 15)

\* generate_summary without the return on an empty list of entries
GenerateSummaryAlways(memories, summaries, t, summary_type, memory_ids) ==
    LET summary_id == <<summary_type, t>>
        MemorySummary(gathered, entities) ==
            [summary_id |-> summary_id,
             timestamp |-> t,
             summary_type |-> summary_type,
             key_points |-> Take(gathered.key_points, 10),
             entities |-> entities,
             patterns |-> <<>>,
             decisions |-> gathered.decisions,
             compressed_memories |-> memory_ids]
        Stored(gathered, lists) ==
            {[summary_id |-> summary_id,
              memory_summaries |->
                  DictSet(summaries, SummaryAt(summaries, summary_id),
                          MemorySummary(gathered, entities))] : entities \in lists}
        Summary(collected) ==
            Stored(GatherPoints(collected, <<>>, <<>>), SummaryEntities(collected))
    IN  Summary(Resolve(memories, memory_ids))

\* a generate_summary that records the ids only of the entries it found
GenerateSummaryResolvedIds(memories, summaries, t, summary_type, memory_ids) ==
    LET summary_id == <<summary_type, t>>
        present == SelectSeq(memory_ids, LAMBDA mid : mid \in MemoryIds(memories))
        MemorySummary(gathered, entities) ==
            [summary_id |-> summary_id,
             timestamp |-> t,
             summary_type |-> summary_type,
             key_points |-> Take(gathered.key_points, 10),
             entities |-> entities,
             patterns |-> <<>>,
             decisions |-> gathered.decisions,
             compressed_memories |-> present]
        Stored(gathered, lists) ==
            {[summary_id |-> summary_id,
              memory_summaries |->
                  DictSet(summaries, SummaryAt(summaries, summary_id),
                          MemorySummary(gathered, entities))] : entities \in lists}
        Summary(collected) ==
            IF collected = <<>>
            THEN {[summary_id |-> "", memory_summaries |-> summaries]}
            ELSE Stored(GatherPoints(collected, <<>>, <<>>),
                        SummaryEntities(collected))
    IN  Summary(Resolve(memories, memory_ids))

\* MemoryCompressor.generate_summary at time t; memory_ids is the list given,
\* or the recent ring when none is given.  Every way it can end, one for each
\* list that list(entities)[:15] can be: the id returned and the summaries
\* afterwards.
GenerateSummary(memories, summaries, t, summary_type, memory_ids) ==
    LET summary_id == <<summary_type, t>>         \* f"summary_{type}_{ms}"
        MemorySummary(gathered, entities) ==
            [summary_id |-> summary_id,
             timestamp |-> t,
             summary_type |-> summary_type,
             key_points |-> Take(gathered.key_points, 10),
             entities |-> entities,
             patterns |-> <<>>,
             decisions |-> gathered.decisions,
             compressed_memories |-> memory_ids]
        Stored(gathered, lists) ==
            {[summary_id |-> summary_id,
              memory_summaries |->
                  DictSet(summaries, SummaryAt(summaries, summary_id),
                          MemorySummary(gathered, entities))] : entities \in lists}
        Summary(collected) ==
            IF collected = <<>>
            THEN {[summary_id |-> "", memory_summaries |-> summaries]}
            ELSE Stored(GatherPoints(collected, <<>>, <<>>),
                        SummaryEntities(collected))
    IN  Summary(Resolve(memories, memory_ids))

\* _get_memory_type_distribution
MemoryTypeDistribution(memories) ==
    {<<k, Cardinality({i \in 1..Len(memories) : memories[i].memory_type = k})>> :
        k \in {memories[i].memory_type : i \in 1..Len(memories)}}

ShortStatsKeys ==
    {"total_memories", "compression_ratio", "space_saved", "avg_importance_score"}
FullStatsKeys ==
    ShortStatsKeys \cup {"total_original_size", "total_compressed_size", "memory_types"}

\* MemoryCompressor.get_compression_stats: the dict returned, with its keys;
\* a quotient is the pair <<dividend, divisor>>
GetCompressionStats(st) ==
    IF st.compression_count = 0
    THEN [raised |-> "none", keys |-> ShortStatsKeys, total_memories |-> 0,
          compression_ratio |-> <<0, 1>>, avg_importance_score |-> <<0, 1>>,
          memory_types |-> {}]
    ELSE IF Len(st.compressed_memories) = 0
    THEN [raised |-> "ZeroDivisionError", keys |-> {}, total_memories |-> 0,
          compression_ratio |-> <<0, 1>>, avg_importance_score |-> <<0, 1>>,
          memory_types |-> {}]
    ELSE [raised |-> "none", keys |-> FullStatsKeys,
          total_memories |-> Len(st.compressed_memories),
          memory_types |-> MemoryTypeDistribution(st.compressed_memories),
          compression_ratio |->
              IF st.total_original_size > 0
              THEN <<st.total_compressed_size, st.total_original_size>>
              ELSE <<0, 1>>,
          avg_importance_score |->
              <<SumSeq([i \in 1..Len(st.compressed_memories) |->
                           st.compressed_memories[i].importance_score]),
                Len(st.compressed_memories)>>]

-----------------------------------------------------------------------------
(* The module-level functions on the global _memory_compressor, one action *)
(* each.  Every one runs its body under try/except Exception and returns a *)
(* str; last keeps the call with its arguments, what the method raised,    *)
(* what it returned, and the head of the str the caller got.               *)

Store ==
    StoreOf(compressed_memories, recent_memories, total_original_size,
            total_compressed_size, compression_count)

SetStore(st) ==
    /\ compressed_memories' = st.compressed_memories
    /\ recent_memories' = st.recent_memories
    /\ total_original_size' = st.total_original_size
    /\ total_compressed_size' = st.total_compressed_size
    /\ compression_count' = st.compression_count

NoCall ==
    [op |-> "none", args |-> <<>>, raised |-> "none", ret |-> <<>>,
     reply |-> "", escaped |-> FALSE]

\* the exceptions the methods raise, every one a subclass of Exception
Exceptions == {"AttributeError", "TypeError", "KeyError", "ZeroDivisionError"}

\* the body of a module-level function without its try/except
ReturnedUncaught(op, args, raised, ret, ok, error) ==
    [op |-> op, args |-> args, raised |-> raised, ret |-> ret,
     reply |-> IF raised = "none" THEN ok ELSE "",
     escaped |-> raised # "none"]

\* try: ... return ok / except Exception as e: return f"Error ...: {e}"
Returned(op, args, raised, ret, ok, error) ==
    [op |-> op, args |-> args, raised |-> raised, ret |-> ret,
     reply |-> IF raised = "none" THEN ok
               ELSE IF raised \in Exceptions THEN error ELSE "",
     escaped |-> raised # "none" /\ raised \notin Exceptions]

\* The threads that call compress_memory on one store, and a thread that is
\* in no call: the statement it is at, the CompressedMemory it built, the
\* total it read for a += or -=, the ids _cleanup_old_memories is to delete,
\* the entry it is deleting, and the exception it raised
Callers == 1..MaxCallers
Idle ==
    [pc |-> "idle", call |-> <<>>, memory |-> <<>>, loaded |-> 0,
     to_remove |-> <<>>, victim |-> <<>>, raised |-> "none"]

\* MemoryCompressor(max_memory_size)
Init ==
    /\ max_memory_size \in 0..MaxCapacity
    /\ compressed_memories = <<>>
    /\ memory_summaries = <<>>
    /\ recent_memories = <<>>
    /\ total_original_size = 0
    /\ total_compressed_size = 0
    /\ compression_count = 0
    /\ now = 0
    /\ last = NoCall
    /\ callers = [c \in Callers |-> Idle]

\* time passes between two calls
Tick ==
    /\ now < MaxTime
    /\ now' = now + 1
    /\ last' = NoCall
    /\ UNCHANGED <<store, callers>>

\* a compress_memory whose cleanup clears the summaries with the entries
CompressClearingSummaries(content, memory_type, context) ==
    /\ compression_count < MaxCompressions
    /\ \E key_entities \in EntityLists(content, memory_type) :
          LET Done(out) ==
                  /\ SetStore(out.store)
                  /\ memory_summaries' =
                        IF /\ out.raised = "none"
                           /\ Len(out.store.compressed_memories)
                                 <= Len(compressed_memories)
                        THEN <<>> ELSE memory_summaries
                  /\ last' = Returned("compress", <<content, memory_type, context>>,
                                      out.raised, out.memory_id,
                                      "Memory compressed successfully",
                                      "Error compressing memory")
          IN  Done(CompressMemory(Store, max_memory_size, now, content,
                                  memory_type, context, key_entities))
    /\ UNCHANGED <<max_memory_size, now, callers>>

\* a compress_memory that counts the call before it computes anything
CompressCallCountingFirst(content, memory_type, context) ==
    /\ \E key_entities \in EntityLists(content, memory_type) :
          LET Done(out) ==
                  /\ SetStore(IF out.raised = "none" THEN out.store
                              ELSE [out.store EXCEPT !.compression_count = @ + 1])
                  /\ last' = Returned("compress", <<content, memory_type, context>>,
                                      out.raised, out.memory_id,
                                      "Memory compressed successfully",
                                      "Error compressing memory")
          IN  Done(CompressMemory(Store, max_memory_size, now, content,
                                  memory_type, context, key_entities))
    /\ UNCHANGED <<max_memory_size, memory_summaries, now, callers>>

\* compress_memory(content, memory_type, context)
CompressCall(content, memory_type, context) ==
    /\ \E key_entities \in EntityLists(content, memory_type) :
          LET Done(out) ==
                  /\ SetStore(out.store)
                  /\ last' = Returned("compress", <<content, memory_type, context>>,
                                      out.raised, out.memory_id,
                                      "Memory compressed successfully",
                                      "Error compressing memory")
          IN  Done(CompressMemory(Store, max_memory_size, now, content,
                                  memory_type, context, key_entities))
    /\ UNCHANGED <<max_memory_size, memory_summaries, now, callers>>

\* compress_memory, as long as fewer than MaxCompressions calls were counted
Compress(content, memory_type, context) ==
    /\ compression_count < MaxCompressions
    /\ CompressCall(content, memory_type, context)

\* search_compressed_memories(query, memory_type, limit)
Search(query, memory_type, limit) ==
    /\ LET Done(out) ==
               last' = Returned("search", <<query, memory_type, limit>>, out.raised,
                                [i \in 1..Len(out.memories) |->
                                    out.memories[i].memory_id],
                                IF out.memories = <<>>
                                THEN "No matching memories found."
                                ELSE "Found matching memories",
                                "Error searching memories")
       IN  Done(SearchMemories(compressed_memories, query, memory_type, limit))
    /\ UNCHANGED <<store, now, callers>>

\* get_memory_compression_stats(): the report reads every key of FullStatsKeys
\* but 'memory_types' by subscript, and a key that is missing raises KeyError
Stats ==
    /\ LET Raised(stats) ==
               IF stats.raised # "none" THEN stats.raised
               ELSE IF ~(FullStatsKeys \subseteq stats.keys) THEN "KeyError"
               ELSE "none"
           Done(stats) ==
               last' = Returned("stats", <<>>, Raised(stats), stats,
                                "Memory Compression Statistics",
                                "Error getting compression stats")
       IN  Done(GetCompressionStats(Store))
    /\ UNCHANGED <<store, now, callers>>

\* a generate_memory_summary that takes the ids out of the recent ring
SummarizeDrainingRing(summary_type) ==
    /\ \E out \in GenerateSummary(compressed_memories, memory_summaries, now,
                                  summary_type, recent_memories) :
          /\ Len(out.memory_summaries) <= MaxSummaries
          /\ memory_summaries' = out.memory_summaries
          /\ last' = Returned("summarize", <<summary_type>>, "none",
                              out.summary_id,
                              IF GetSummary(out.memory_summaries,
                                            out.summary_id) = {}
                              THEN "Error generating summary."
                              ELSE "Memory Summary Generated",
                              "Error generating summary")
    /\ recent_memories' = <<>>
    /\ UNCHANGED <<max_memory_size, compressed_memories,
                   total_original_size, total_compressed_size,
                   compression_count, now, callers>>

\* generate_memory_summary(summary_type): the summary of the recent ring
Summarize(summary_type) ==
    /\ \E out \in GenerateSummary(compressed_memories, memory_summaries, now,
                                  summary_type, recent_memories) :
          /\ Len(out.memory_summaries) <= MaxSummaries
          /\ memory_summaries' = out.memory_summaries
          /\ last' = Returned("summarize", <<summary_type>>, "none",
                              out.summary_id,
                              IF GetSummary(out.memory_summaries,
                                            out.summary_id) = {}
                              THEN "Error generating summary."
                              ELSE "Memory Summary Generated",
                              "Error generating summary")
    /\ UNCHANGED <<max_memory_size, compressed_memories, recent_memories,
                   total_original_size, total_compressed_size,
                   compression_count, now, callers>>

\* a reset that clears the entries of the store it has and nothing else
ResetEntriesOnly ==
    /\ compressed_memories' = <<>>
    /\ last' = Returned("reset", <<>>, "none", <<>>,
                        "Memory compression system reset successfully.",
                        "Error resetting memory compression")
    /\ UNCHANGED <<max_memory_size, memory_summaries, recent_memories,
                   total_original_size, total_compressed_size,
                   compression_count, now, callers>>

\* reset_memory_compression(): _memory_compressor = MemoryCompressor()
Reset ==
    /\ max_memory_size' = DefaultMaxMemorySize
    /\ compressed_memories' = <<>>
    /\ memory_summaries' = <<>>
    /\ recent_memories' = <<>>
    /\ total_original_size' = 0
    /\ total_compressed_size' = 0
    /\ compression_count' = 0
    /\ last' = Returned("reset", <<>>, "none", <<>>,
                        "Memory compression system reset successfully.",
                        "Error resetting memory compression")
    /\ UNCHANGED <<now, callers>>

\* a batch_compress_memories that undoes what it stored when an item fails
BatchCompressAtomic(memories) ==
    /\ compression_count + Len(memories) <= MaxCompressions
    /\ \E out \in BatchCompressMemories(Store, max_memory_size, now, memories, <<>>) :
          /\ SetStore(IF out.raised = "none" THEN out.store ELSE Store)
          /\ last' = Returned("batch_compress", <<memories>>, out.raised,
                              out.memory_ids,
                              "Batch compression completed. "
                                  \o NatStr(Len(out.memory_ids))
                                  \o " memories compressed.",
                              "Error in batch compression")
    /\ UNCHANGED <<max_memory_size, memory_summaries, now, callers>>

\* batch_compress_memories(memories)
BatchCompress(memories) ==
    /\ compression_count + Len(memories) <= MaxCompressions
    /\ \E out \in BatchCompressMemories(Store, max_memory_size, now, memories, <<>>) :
          /\ SetStore(out.store)
          /\ last' = Returned("batch_compress", <<memories>>, out.raised,
                              out.memory_ids,
                              "Batch compression completed. "
                                  \o NatStr(Len(out.memory_ids))
                                  \o " memories compressed.",
                              "Error in batch compression")
    /\ UNCHANGED <<max_memory_size, memory_summaries, now, callers>>

Next ==
    \/ Tick
    \/ \E call \in Calls : Compress(call.content, call.type, call.context)
    \/ \E memories \in Batches : BatchCompress(memories)
    \/ \E search \in Searches : Search(search.query, search.type, search.limit)
    \/ Stats
    \/ \E summary_type \in SummaryTypes : Summarize(summary_type)
    \/ Reset

Spec == Init /\ [][Next]_vars

-----------------------------------------------------------------------------
(* compress_memory on the store the module starts with,                    *)
(* _memory_compressor = MemoryCompressor(), for every text, kind and       *)
(* context of the tables.                                                  *)

AllCalls ==
    {Call(Text(t), k, c) : t \in Texts, k \in Kinds, c \in Contexts}
    \cup {Call(NotText, "generic", NoContext)}

GlobalInit ==
    /\ max_memory_size = DefaultMaxMemorySize
    /\ compressed_memories = <<>>
    /\ memory_summaries = <<>>
    /\ recent_memories = <<>>
    /\ total_original_size = 0
    /\ total_compressed_size = 0
    /\ compression_count = 0
    /\ now = 0
    /\ last = NoCall
    /\ callers = [c \in Callers |-> Idle]

CompressAny(content, memory_type, context) ==
    /\ compression_count < MaxGlobalCompressions
    /\ Compress(content, memory_type, context)

KindsNext ==
    \E call \in AllCalls : CompressAny(call.content, call.type, call.context)

KindsSpec == GlobalInit /\ [][KindsNext]_vars

-----------------------------------------------------------------------------
(* The limits on the lists: one compress_memory of a text that quotes 21   *)
(* strings on eleven long lines, on the store the module starts with, and  *)
(* one generate_memory_summary.                                            *)

QuotingCalls == {Call(Text(ManyQuoted), "generic", NoContext)}

SummarizeOnce(summary_type) ==
    /\ Len(memory_summaries) < MaxGlobalSummaries
    /\ Summarize(summary_type)

LimitsNext ==
    \/ \E call \in QuotingCalls : CompressAny(call.content, call.type, call.context)
    \/ \E summary_type \in SummaryTypes : SummarizeOnce(summary_type)

LimitsSpec == GlobalInit /\ [][LimitsNext]_vars

-----------------------------------------------------------------------------
(* A MemoryCompressor that is sent one content more often than the recent  *)
(* ring is long, while the clock ticks and the module is reset.            *)

RingCalls == {Call(Text("fix bug"), "generic", NoContext)}

CompressRing(content, memory_type, context) ==
    /\ compression_count < MaxRingCompressions
    /\ CompressCall(content, memory_type, context)

RingNext ==
    \/ Tick
    \/ \E call \in RingCalls : CompressRing(call.content, call.type, call.context)
    \/ Reset

RingSpec == Init /\ [][RingNext]_vars

-----------------------------------------------------------------------------
(* The module's own store with entries of kind solution and entries of     *)
(* another kind, and one generate_memory_summary over them.                *)

SolutionCalls ==
    {Call(Text(TwoLongLines), "generic", NoContext),
     Call(Text(ShortSolution), "solution", NoContext),
     Call(Text(FourSteps), "solution", NoContext)}

CompressSolutions(content, memory_type, context) ==
    /\ compression_count < MaxSolutionCompressions
    /\ CompressCall(content, memory_type, context)

DecisionsNext ==
    \/ Tick
    \/ \E call \in SolutionCalls :
          CompressSolutions(call.content, call.type, call.context)
    \/ \E summary_type \in SummaryTypes : SummarizeOnce(summary_type)

DecisionsSpec == GlobalInit /\ [][DecisionsNext]_vars

-----------------------------------------------------------------------------
(* One MemoryCompressor used by several threads.  Nothing in the class     *)
(* takes a lock, so the statements of MemoryCompressor.compress_memory and *)
(* _cleanup_old_memories of one thread interleave with those of another    *)
(* and with get_memory_compression_stats.  An augmented assignment is a    *)
(* read of the attribute and a later write.  Every caller makes one call,  *)
(* each with a content of its own, all within one millisecond.             *)

ThreadTexts == <<"fix bug", "hello">>
ThreadCall(c) ==
    Call(Text(ThreadTexts[((c - 1) % Len(ThreadTexts)) + 1]), "generic", NoContext)

\* caller c goes on to the statement pc with the locals it has in me
Goto(c, me, pc) ==
    /\ callers' = [callers EXCEPT ![c] = [me EXCEPT !.pc = pc]]
    /\ last' = NoCall

\* lines 96-121: the id, the importance, the compressed text, the entities
\* and the CompressedMemory, computed before anything of self is written
Begin(c) ==
    /\ callers[c].pc = "idle"
    /\ \E key_entities \in EntityLists(ThreadCall(c).content, ThreadCall(c).type) :
          LET Built(out) ==
                  Goto(c, [callers[c] EXCEPT
                              !.call = ThreadCall(c),
                              !.raised = out.raised,
                              !.memory = IF out.raised = "none"
                                         THEN out.store.compressed_memories[1]
                                         ELSE <<>>],
                       IF out.raised = "none" THEN "store" ELSE "return")
          IN  Built(CompressMemory(StoreOf(<<>>, <<>>, 0, 0, 0),
                                   DefaultMaxMemorySize, now,
                                   ThreadCall(c).content, ThreadCall(c).type,
                                   ThreadCall(c).context, key_entities))
    /\ UNCHANGED <<store, now>>

\* lines 124-125: the entry goes into the dict, its id into the recent ring
Insert(c) ==
    LET me == callers[c]
    IN  \/ /\ me.pc = "store"
           /\ compressed_memories' =
                 DictSet(compressed_memories,
                         MemoryAt(compressed_memories, me.memory.memory_id),
                         me.memory)
           /\ Goto(c, me, "ring")
           /\ UNCHANGED <<max_memory_size, memory_summaries, recent_memories,
                          total_original_size, total_compressed_size,
                          compression_count, now>>
        \/ /\ me.pc = "ring"
           /\ recent_memories' = DequeAppend(recent_memories, me.memory.memory_id)
           /\ Goto(c, me, "load_original")
           /\ UNCHANGED <<max_memory_size, compressed_memories, memory_summaries,
                          total_original_size, total_compressed_size,
                          compression_count, now>>

\* lines 128-130: the three += of compress_memory, each a read and a write
AddTotals(c) ==
    LET me == callers[c]
    IN  \/ /\ me.pc = "load_original"
           /\ Goto(c, [me EXCEPT !.loaded = total_original_size], "add_original")
           /\ UNCHANGED <<store, now>>
        \/ /\ me.pc = "add_original"
           /\ total_original_size' = me.loaded + Len(me.memory.original_content)
           /\ Goto(c, me, "load_compressed")
           /\ UNCHANGED <<max_memory_size, compressed_memories, memory_summaries,
                          recent_memories, total_compressed_size,
                          compression_count, now>>
        \/ /\ me.pc = "load_compressed"
           /\ Goto(c, [me EXCEPT !.loaded = total_compressed_size], "add_compressed")
           /\ UNCHANGED <<store, now>>
        \/ /\ me.pc = "add_compressed"
           /\ total_compressed_size' = me.loaded + Len(me.memory.compressed_content)
           /\ Goto(c, me, "load_count")
           /\ UNCHANGED <<max_memory_size, compressed_memories, memory_summaries,
                          recent_memories, total_original_size,
                          compression_count, now>>
        \/ /\ me.pc = "load_count"
           /\ Goto(c, [me EXCEPT !.loaded = compression_count], "add_count")
           /\ UNCHANGED <<store, now>>
        \/ /\ me.pc = "add_count"
           /\ compression_count' = me.loaded + 1
           /\ Goto(c, me, "check")
           /\ UNCHANGED <<max_memory_size, compressed_memories, memory_summaries,
                          recent_memories, total_original_size,
                          total_compressed_size, now>>

\* the ids of memories_with_scores[:to_remove], in the order of the sort
EvictionOrder(memories, max_size, t) ==
    LET Sorted(gone) ==
            [r \in 1..Cardinality(gone) |->
                (CHOOSE m \in gone :
                    Cardinality({o \in gone : ScoredBefore(o, m, t)}) = r - 1
                ).memory_id]
    IN  Sorted(ToEvict(memories, max_size, t))

\* lines 133-134 and _cleanup_old_memories, lines 500-526: the test, the
\* ranking, and for every id to remove the test that it is a key, the two
\* -= on the totals and the del
Cleanup(c) ==
    LET me == callers[c]
    IN  \/ /\ me.pc = "check"
           /\ Goto(c, me, IF Len(compressed_memories) > max_memory_size
                          THEN "rank" ELSE "return")
           /\ UNCHANGED <<store, now>>
        \/ /\ me.pc = "rank"
           /\ IF Len(compressed_memories) <= max_memory_size
              THEN Goto(c, me, "return")
              ELSE Goto(c, [me EXCEPT !.to_remove =
                               EvictionOrder(compressed_memories,
                                             max_memory_size, now)],
                        "evict")
           /\ UNCHANGED <<store, now>>
        \/ /\ me.pc = "evict"
           /\ IF me.to_remove = <<>>
              THEN Goto(c, me, "return")
              ELSE IF Head(me.to_remove) \in MemoryIds(compressed_memories)
              THEN Goto(c, [me EXCEPT !.victim =
                               CHOOSE m \in Range(compressed_memories) :
                                   m.memory_id = Head(me.to_remove)],
                        "load_sub_original")
              ELSE Goto(c, [me EXCEPT !.to_remove = Tail(@)], "evict")
           /\ UNCHANGED <<store, now>>
        \/ /\ me.pc = "load_sub_original"
           /\ Goto(c, [me EXCEPT !.loaded = total_original_size], "sub_original")
           /\ UNCHANGED <<store, now>>
        \/ /\ me.pc = "sub_original"
           /\ total_original_size' = me.loaded - Len(me.victim.original_content)
           /\ Goto(c, me, "load_sub_compressed")
           /\ UNCHANGED <<max_memory_size, compressed_memories, memory_summaries,
                          recent_memories, total_compressed_size,
                          compression_count, now>>
        \/ /\ me.pc = "load_sub_compressed"
           /\ Goto(c, [me EXCEPT !.loaded = total_compressed_size], "sub_compressed")
           /\ UNCHANGED <<store, now>>
        \/ /\ me.pc = "sub_compressed"
           /\ total_compressed_size' = me.loaded - Len(me.victim.compressed_content)
           /\ Goto(c, me, "delete")
           /\ UNCHANGED <<max_memory_size, compressed_memories, memory_summaries,
                          recent_memories, total_original_size,
                          compression_count, now>>
        \/ /\ me.pc = "delete"
           /\ IF Head(me.to_remove) \in MemoryIds(compressed_memories)
              THEN /\ compressed_memories' =
                         SelectSeq(compressed_memories,
                                   LAMBDA m : m.memory_id # Head(me.to_remove))
                   /\ Goto(c, [me EXCEPT !.to_remove = Tail(@)], "evict")
              ELSE /\ compressed_memories' = compressed_memories
                   /\ Goto(c, [me EXCEPT !.raised = "KeyError"], "return")
           /\ UNCHANGED <<max_memory_size, memory_summaries, recent_memories,
                          total_original_size, total_compressed_size,
                          compression_count, now>>

\* line 136 and the module-level compress_memory, lines 553-557: the id, or
\* the error reply when the method raised
Return(c) ==
    LET me == callers[c]
    IN  /\ me.pc = "return"
        /\ callers' = [callers EXCEPT ![c] = [me EXCEPT !.pc = "done"]]
        /\ last' = Returned("compress",
                            <<me.call.content, me.call.type, me.call.context>>,
                            me.raised,
                            IF me.raised = "none" THEN me.memory.memory_id ELSE <<>>,
                            "Memory compressed successfully",
                            "Error compressing memory")
        /\ UNCHANGED <<store, now>>

ThreadsNext ==
    \/ \E c \in Callers :
          Begin(c) \/ Insert(c) \/ AddTotals(c) \/ Cleanup(c) \/ Return(c)
    \/ Stats

ThreadsSpec == Init /\ [][ThreadsNext]_vars

-----------------------------------------------------------------------------
(* Properties.                                                             *)

\* C1: a compress call that pushes the number of stored entries above
\* max_memory_size returns with exactly max_memory_size entries stored, and
\* between operations the store never holds more than max_memory_size entries.
C1_InsertBeyondMaxLeavesMax ==
    /\ [][(/\ last'.op = "compress"
           /\ last'.raised = "none"
           /\ last'.ret \notin MemoryIds(compressed_memories)
           /\ Len(compressed_memories) + 1 > max_memory_size)
          => Len(compressed_memories') = max_memory_size]_vars
    /\ [](Len(compressed_memories) <= max_memory_size)

\* a compress call with a new id has just returned on a store that was full:
\* the ring names max_memory_size other ids, and exactly max_memory_size
\* entries are stored
C1_Witness ==
    /\ last.op = "compress"
    /\ last.raised = "none"
    /\ max_memory_size = MaxCapacity
    /\ Cardinality({i \in 1..Len(recent_memories) : recent_memories[i] = last.ret}) = 1
    /\ Cardinality(Range(recent_memories) \ {last.ret}) >= max_memory_size
    /\ Len(compressed_memories) = max_memory_size

\* C2: at every eviction each surviving entry has a combined score (importance
\* * 0.7 + recency * 0.3, at eviction time) at least that of each evicted
\* entry, the entry just created included; and when a third entry arrives in
\* a store of max_memory_size 2 whose two entries were created at the same
\* instant, the three importances all different, exactly the entry of the
\* lowest importance is evicted.
C2_EvictsLowestCombined ==
    [][(last'.op = "compress" /\ last'.raised = "none") =>
        LET created ==
                [memory_id |-> last'.ret,
                 timestamp |-> now,
                 importance_score |->
                     ImportanceScore[last'.args[1].text][last'.args[2]][last'.args[3]]]
            before == {[memory_id |-> m.memory_id, timestamp |-> m.timestamp,
                        importance_score |-> m.importance_score] :
                          m \in {o \in Range(compressed_memories) :
                                    o.memory_id # last'.ret}}
            ranked == before \cup {created}
            surviving == {m \in ranked : m.memory_id \in MemoryIds(compressed_memories')}
            evicted == ranked \ surviving
        IN  /\ \A S \in surviving, E \in evicted :
                  CombinedScore(S, now) >= CombinedScore(E, now)
            /\ (/\ max_memory_size = 2
                /\ Cardinality(ranked) = 3
                /\ \A m \in ranked : m.timestamp = now
                /\ \A m, o \in ranked :
                      m # o => m.importance_score # o.importance_score)
               => \E E \in ranked :
                     /\ evicted = {E}
                     /\ \A m \in ranked : m.importance_score >= E.importance_score]_vars

\* three entries of three ids were created at one instant in a store of
\* max_memory_size 2, and the two that are left differ in importance
C2_Witness ==
    /\ last.op = "compress"
    /\ last.raised = "none"
    /\ max_memory_size = 2
    /\ compression_count = 3
    /\ Cardinality(Range(recent_memories)) = 3
    /\ \A memory_id \in Range(recent_memories) : memory_id[2] = now
    /\ Len(compressed_memories) = 2
    /\ compressed_memories[1].importance_score # compressed_memories[2].importance_score

\* C3: an entry whose compressed text does not contain the query, whatever
\* the case of the letters, and none of whose entities contains it, is in no
\* search result; a token that occurs nowhere finds nothing.
C3_NoHitNeverReturned ==
    (last.op = "search" /\ last.raised = "none") =>
        LET found == QueryFound[last.args[1].text]
        IN  \A i \in 1..Len(last.ret) :
                \A m \in GetMemory(compressed_memories, last.ret[i]) :
                    \/ m.compressed_content \in found
                    \/ \E entity \in m.key_entities : entity \in found

\* C4: no compress call returns an id that is a key of the store at the time
\* of the call.
C4_IdNeverReused ==
    [][(last'.op = "compress" /\ last'.raised = "none")
          => last'.ret \notin MemoryIds(compressed_memories)]_vars

\* C5: an entry keeps every field for as long as its id is in the store; an
\* id leaves the store only in a compress call (its eviction) or a reset, and
\* only a compress call adds an id.
C5_EntriesNeverMutated ==
    [][/\ \A m \in Range(compressed_memories) :
             m.memory_id \in MemoryIds(compressed_memories')
                 => m \in Range(compressed_memories')
       /\ ~(MemoryIds(compressed_memories) \subseteq MemoryIds(compressed_memories'))
             => last'.op \in {"compress", "batch_compress", "reset"}
       /\ ~(MemoryIds(compressed_memories') \subseteq MemoryIds(compressed_memories))
             => last'.op \in {"compress", "batch_compress"}]_vars

\* C6: a search returns entries in non-increasing order of the score 1.0 for
\* a content hit + 0.5 for an entity hit, counted once, + importance * 0.3;
\* it returns at most limit entries, and these are the highest-scoring of the
\* entries that pass the filter.
C6_SearchSortedAndLimited ==
    (last.op = "search" /\ last.raised = "none") =>
        LET found == QueryFound[last.args[1].text]
            limit == last.args[3]
            Score(m) ==
                (IF m.compressed_content \in found THEN 50000 ELSE 0)
                + (IF m.key_entities \cap found # {} THEN 25000 ELSE 0)
                + 3 * m.importance_score
            Entry(memory_id) ==
                CHOOSE m \in Range(compressed_memories) : m.memory_id = memory_id
            passing == {m \in Range(compressed_memories) :
                           /\ last.args[2] \in {NoFilter, m.memory_type}
                           /\ Score(m) > 0}
            returned == {Entry(last.ret[i]) : i \in 1..Len(last.ret)}
        IN  /\ Range(last.ret) \subseteq MemoryIds(compressed_memories)
            /\ \A i, j \in 1..Len(last.ret) :
                  i < j => /\ last.ret[i] # last.ret[j]
                           /\ Score(Entry(last.ret[i])) >= Score(Entry(last.ret[j]))
            /\ Len(last.ret) = Min(limit, Cardinality(passing))
            /\ returned \subseteq passing
            /\ \A m \in returned, o \in passing \ returned : Score(m) >= Score(o)

\* a search with limit 2 has returned two of the three entries stored, and
\* not in the order they were stored in
C6_Witness ==
    /\ last.op = "search"
    /\ last.raised = "none"
    /\ last.args[3] = 2
    /\ Len(last.ret) = 2
    /\ Len(compressed_memories) = 3
    /\ \E i, j \in 1..3 :
          /\ i < j
          /\ last.ret[1] = compressed_memories[j].memory_id
          /\ last.ret[2] = compressed_memories[i].memory_id

C8_ResetClearsSummaries ==
    [][last'.op = "reset" =>
          /\ memory_summaries' = <<>>
          /\ \A summary_id \in SummaryIds(memory_summaries) :
                GetSummary(memory_summaries', summary_id) = {}]_vars

\* reset has just returned and no summary is stored
C8_Witness ==
    /\ last.op = "reset"
    /\ last.raised = "none"
    /\ SummaryIds(memory_summaries) = {}
    /\ \A summary_type \in SummaryTypes :
          GetSummary(memory_summaries, <<summary_type, now>>) = {}

\* C9: every module-level function returns a str to its caller and lets no
\* exception escape; when its body raised, the str is the error reply of the
\* function, which no call that succeeded returns.
C9_NoExceptionEscapes ==
    last.op # "none" =>
        /\ ~last.escaped
        /\ last.reply # ""
        /\ last.raised # "none" => StartsWith(last.reply, "Error")
        /\ (last.raised = "none" /\ StartsWith(last.reply, "Error"))
              => last.op = "summarize" /\ last.ret = ""

\* batch_compress_memories has returned its error reply after an item raised,
\* with an entry of an earlier item stored
C9_Witness ==
    /\ last.op = "batch_compress"
    /\ last.raised = "AttributeError"
    /\ last.reply = "Error in batch compression"
    /\ compressed_memories # <<>>

\* C10: get_compression_stats on a store that holds no entries does not
\* fail, and reports 0 memories and a mean importance of 0.
C10_StatsOnEmptyStore ==
    compressed_memories = <<>> =>
        LET stats == GetCompressionStats(Store)
        IN  /\ stats.raised = "none"
            /\ stats.total_memories = 0
            /\ stats.avg_importance_score[1] = 0

\* the entry a compress call that has just returned stored, if it is stored
Created == GetMemory(compressed_memories, last.ret)

\* a context compress_memory can use: none, or one whose relevance is a number
UsableContext(context) == ~context.has_relevance \/ context.numeric

\* C11: compress_memory of the empty text, whatever the kind, does not raise,
\* and stores the empty text as compressed text with a compression_ratio of
\* 1.0.
C11_EmptyInputUnchanged ==
    (/\ last.op = "compress"
     /\ last.args[1] = Text("")
     /\ UsableContext(last.args[3]))
    => /\ last.raised = "none"
       /\ Created # {}
       /\ \A m \in Created :
             /\ m.compressed_content = ""
             /\ m.compression_ratio[1] = m.compression_ratio[2]

\* C12: compress_memory of a text that is not empty, whatever the kind,
\* stores a compressed text of at least one character and a compression_ratio
\* above 0.
C12_NonEmptyStaysNonEmpty ==
    (/\ last.op = "compress"
     /\ last.raised = "none"
     /\ last.args[1].text # "")
    => /\ Created # {}
       /\ \A m \in Created :
             /\ Len(m.compressed_content) >= 1
             /\ m.compression_ratio[1] > 0
             /\ m.compression_ratio[2] > 0

\* a solution none of whose lines is a step has been compressed: what is
\* stored is its first two and last two lines, the one line four times over
C12_Witness ==
    /\ last.op = "compress"
    /\ last.raised = "none"
    /\ last.args[1].text = "hello"
    /\ last.args[2] = "solution"
    /\ \E m \in Created :
          /\ m.original_content = "hello"
          /\ m.compressed_content = "hello\nhello"
          /\ m.compression_ratio = <<11, 5>>

\* C13: every stored entry has an importance of at least 0, whatever the
\* text, the kind and the relevance the caller gave.
C13_ImportanceNonNegative ==
    \A m \in Range(compressed_memories) : m.importance_score >= 0

\* C19: compress_memory with a kind that _compress_by_type does not know does
\* not fail: the text stored is the text given when it has at most 500
\* characters, and otherwise its first 250 characters, the marker and its
\* last 250 characters; the entities are quoted strings and technical terms.
C19_UnknownKindIsGeneric ==
    (/\ last.op = "compress"
     /\ last.args[1].is_str
     /\ UsableContext(last.args[3])
     /\ last.args[2] \notin KnownKinds)
    => /\ last.raised = "none"
       /\ Created # {}
       /\ \A m \in Created :
             LET text == m.original_content
             IN  /\ text = last.args[1].text
                 /\ m.memory_type = last.args[2]
                 /\ m.compressed_content =
                        IF Len(text) <= 500 THEN text
                        ELSE SubSeq(text, 1, 250) \o "\n[... compressed ...]\n"
                             \o SubSeq(text, Len(text) - 249, Len(text))
                 /\ m.key_entities \subseteq
                        Range(FindAll("quoted", text))
                        \cup Range(FindAll("technical", text))
                 /\ Cardinality(m.key_entities) =
                        Min(20, Cardinality(Range(FindAll("quoted", text))
                                \cup Range(Take(FindAll("technical", text), 10))))

\* a text of 501 characters has been compressed as a kind that is not known,
\* and its middle character is gone
C19_Witness ==
    /\ last.op = "compress"
    /\ last.raised = "none"
    /\ last.args[1].text = LongText
    /\ last.args[2] = "note"
    /\ \E m \in Created :
          /\ Len(m.original_content) = 501
          /\ Len(m.compressed_content) = 522
          /\ ~StrContains("M", m.compressed_content)

\* C20, as stated: the 25-line traceback, every line of which
\* _compress_error keeps, compressed as an error, is stored as its first 10
\* lines, one marker that counts the lines left out and its last 10 lines,
\* 22 lines in all.
C20_TwentyTwoLines ==
    (/\ last.op = "compress"
     /\ last.raised = "none"
     /\ last.args[1].text = Traceback25
     /\ last.args[2] = "error")
    => /\ Created # {}
       /\ \A m \in Created :
             LET retained == Stripped(StrSplit(m.original_content, "\n"))
                 output == StrSplit(m.compressed_content, "\n")
             IN  /\ Len(retained) = 25
                 /\ Len(output) = 22
                 /\ SubSeq(output, 1, 10) = SubSeq(retained, 1, 10)
                 /\ SubSeq(output, Len(output) - 9, Len(output))
                       = SubSeq(retained, 16, 25)

\* C20, amended: the 25-line traceback, every line of which _compress_error
\* keeps, compressed as an error, is stored as 21 lines: its first 10 lines,
\* the marker that counts the 5 lines left out, and its last 10 lines.
C20_ErrorKeepsFirstAndLastTen ==
    (/\ last.op = "compress"
     /\ last.raised = "none"
     /\ last.args[1].text = Traceback25
     /\ last.args[2] = "error")
    => /\ Created # {}
       /\ \A m \in Created :
             LET retained == Stripped(StrSplit(m.original_content, "\n"))
                 output == StrSplit(m.compressed_content, "\n")
             IN  /\ Len(retained) = 25
                 /\ Len(output) = 21
                 /\ SubSeq(output, 1, 10) = SubSeq(retained, 1, 10)
                 /\ output[11] = "[... 5 more error lines ...]"
                 /\ SubSeq(output, 12, 21) = SubSeq(retained, 16, 25)

\* the traceback has been compressed as an error, and the line of the marker
\* stands between line 9 and line 15 of the calls
C20_Witness ==
    /\ last.op = "compress"
    /\ last.raised = "none"
    /\ last.args[2] = "error"
    /\ \E m \in Created :
          /\ m.original_content = Traceback25
          /\ StrContains("line 9, in f\n[... 5 more error lines ...]\nFile \"m.py\", line 15,",
                         m.compressed_content)

\* the lists of at most two ids a caller can give generate_summary in this
\* state: ids the ring has held, stored or not, and an id never issued
GivenIds ==
    LET ids == Range(recent_memories) \cup {<<"00000000", 0>>}
    IN  {<<>>} \cup {<<a>> : a \in ids} \cup {<<a, b>> : a, b \in ids}

\* C14: generate_summary resolves the ids it is given, or the recent ring
\* when it is given none, against the store and skips the ids that are not
\* stored; it returns the empty string and stores nothing exactly when no id
\* resolves, and otherwise stores one summary, built from the resolved
\* entries, under the id it returns, and leaves the other summaries alone.
C14_SummarizeResolvesIds ==
    /\ [][last'.op = "summarize" =>
            LET resolved == {m \in Range(compressed_memories) :
                                m.memory_id \in Range(recent_memories)}
            IN  /\ last'.raised = "none"
                /\ last'.ret = "" <=> resolved = {}
                /\ resolved = {} => memory_summaries' = memory_summaries
                /\ resolved # {} =>
                      /\ last'.ret = <<last'.args[1], now>>
                      /\ SummaryIds(memory_summaries')
                            = SummaryIds(memory_summaries) \cup {last'.ret}
                      /\ \A old \in Range(memory_summaries) :
                            old.summary_id # last'.ret
                                => old \in Range(memory_summaries')
                      /\ \E summary \in GetSummary(memory_summaries', last'.ret) :
                            /\ summary.summary_type = last'.args[1]
                            /\ summary.entities
                                  \subseteq UNION {m.key_entities : m \in resolved}
                            /\ \A point \in Range(summary.key_points) :
                                  \E m \in resolved :
                                      StrContains(point, m.compressed_content)]_vars
    /\ [](\A memory_ids \in GivenIds :
             LET resolved == Range(memory_ids) \cap MemoryIds(compressed_memories)
             IN  \A out \in GenerateSummary(compressed_memories, memory_summaries,
                                            now, "task", memory_ids) :
                     /\ out.summary_id = "" <=> resolved = {}
                     /\ resolved = {} => out.memory_summaries = memory_summaries
                     /\ resolved # {} =>
                           /\ out.summary_id = <<"task", now>>
                           /\ GetSummary(out.memory_summaries, out.summary_id) # {})

\* generate_summary has stored a summary of the recent ring, which names an
\* entry that was evicted
C14_Witness ==
    /\ last.op = "summarize"
    /\ last.ret # ""
    /\ GetSummary(memory_summaries, last.ret) # {}
    /\ \E memory_id \in Range(recent_memories) :
          memory_id \notin MemoryIds(compressed_memories)
    /\ \E memory_id \in Range(recent_memories) :
          memory_id \in MemoryIds(compressed_memories)

\* C15: batch_compress_memories on a list of dicts whose contents are str
\* skips every item whose content is missing or empty and reports no error;
\* it compresses the other items in the order of the list, and the count it
\* reports is the number of items whose content is not empty.
C15_BatchSkipsEmpty ==
    [][last'.op = "batch_compress" =>
          LET memories == last'.args[1]
              filled == SelectSeq(memories, LAMBDA memory : memory.content.text # "")
              compressed ==
                  [i \in 1..Len(filled) |->
                      GenerateMemoryId(filled[i].content.text, now)]
          IN  (\A i \in 1..Len(memories) :
                  /\ memories[i].is_dict
                  /\ memories[i].content.is_str
                  /\ UsableContext(memories[i].context))
              => /\ last'.raised = "none"
                 /\ last'.ret = compressed
                 /\ last'.reply = "Batch compression completed. "
                                      \o NatStr(Len(filled)) \o " memories compressed."
                 /\ recent_memories' = recent_memories \o compressed
                 /\ compression_count' = compression_count + Len(filled)
                 /\ MemoryIds(compressed_memories')
                       \subseteq MemoryIds(compressed_memories) \cup Range(compressed)
                 /\ Len(compressed_memories') =
                       Min(max_memory_size,
                           Cardinality(MemoryIds(compressed_memories)
                                       \cup Range(compressed)))]_vars

\* a batch of three items, the first one empty, has returned: two ids, in the
\* order of the list, are the last two of the ring, and both are stored
C15_Witness ==
    /\ last.op = "batch_compress"
    /\ last.raised = "none"
    /\ Len(last.args[1]) = 3
    /\ last.args[1][1].content = Text("")
    /\ last.ret = <<GenerateMemoryId(last.args[1][2].content.text, now),
                    GenerateMemoryId(last.args[1][3].content.text, now)>>
    /\ last.reply = "Batch compression completed. 2 memories compressed."
    /\ TakeLast(recent_memories, 2) = last.ret
    /\ Range(last.ret) \subseteq MemoryIds(compressed_memories)

\* C17: no compress call, alone or in a batch, whether it evicts entries or
\* not, removes or changes a summary.
C17_CompressKeepsSummaries ==
    [][last'.op \in {"compress", "batch_compress"}
          => memory_summaries' = memory_summaries]_vars

\* in a store of max_memory_size 1 the one entry of a summary has been
\* evicted by the second compress call, and the summary is still stored
C17_Witness ==
    /\ last.op = "compress"
    /\ last.raised = "none"
    /\ max_memory_size = 1
    /\ compression_count = 2
    /\ Len(compressed_memories) = 1
    /\ \E summary \in Range(memory_summaries) :
          /\ Len(summary.compressed_memories) = 1
          /\ summary.compressed_memories[1] \notin MemoryIds(compressed_memories)
          /\ summary.compressed_memories[1] # last.ret

\* C18: a search changes neither the entries, the recent ring, the running
\* totals nor the summaries; a summarize changes neither the entries, the
\* recent ring nor the running totals.
C18_ReadersLeaveStore ==
    [][/\ last'.op = "search" =>
             UNCHANGED <<max_memory_size, compressed_memories, recent_memories,
                         total_original_size, total_compressed_size,
                         compression_count, memory_summaries>>
       /\ last'.op = "summarize" =>
             UNCHANGED <<max_memory_size, compressed_memories, recent_memories,
                         total_original_size, total_compressed_size,
                         compression_count>>]_vars

\* a summary of two stored entries has just been stored, and the two entries,
\* the ring and the totals are there
C18_Witness ==
    /\ last.op = "summarize"
    /\ last.ret # ""
    /\ GetSummary(memory_summaries, last.ret) # {}
    /\ Len(compressed_memories) = 2
    /\ Len(recent_memories) >= 2
    /\ total_original_size = OriginalSizes(compressed_memories)
    /\ total_original_size > 0

\* C16: every stored entry has at most 20 entities, and every stored summary
\* at most 10 key points and at most 15 entities.
C16_ListLimits ==
    /\ \A m \in Range(compressed_memories) : Cardinality(m.key_entities) <= 20
    /\ \A summary \in Range(memory_summaries) :
          /\ Len(summary.key_points) <= 10
          /\ Cardinality(summary.entities) <= 15

\* an entry whose text quotes 21 strings on eleven long lines is stored with
\* 20 entities, and its summary with 10 key points and 15 entities
C16_Witness ==
    /\ \E m \in Range(compressed_memories) :
          /\ Cardinality(Range(FindAll("quoted", m.original_content))) = 21
          /\ Cardinality(m.key_entities) = 20
          /\ Cardinality({line \in Range(StrSplit(m.compressed_content, "\n")) :
                             Len(StrStrip(line)) > 20}) = 11
    /\ \E summary \in Range(memory_summaries) :
          /\ Len(summary.key_points) = 10
          /\ Cardinality(summary.entities) = 15

\* C21: after any sequence of compress calls, evictions and repeated
\* submissions of one content included, total_original_size is the sum of
\* the lengths of the original texts of the stored entries and
\* total_compressed_size the sum of the lengths of their compressed texts.
C21_TotalsMatchEntries ==
    /\ total_original_size = OriginalSizes(compressed_memories)
    /\ total_compressed_size = CompressedSizes(compressed_memories)

\* C22: compression_count, the running count of entries, is the number of
\* entries in the store after any sequence of operations.
C22_CountMatchesEntries ==
    compression_count = Len(compressed_memories)

\* the ranking a search without kind filter and without limit gives for the query of the last call
UnfilteredRanking ==
    SearchMemories(compressed_memories, last.args[1], NoFilter,
                   Len(compressed_memories)).memories

\* C26: a search with a kind filter returns only entries of exactly that
\* kind, and its result is the ranking of the same search without filter,
\* restricted to the entries of that kind and then cut to limit.
C26_FilterRestrictsRanking ==
    (last.op = "search" /\ last.raised = "none" /\ last.args[2] # NoFilter) =>
        LET OfKind(ranking) ==
                SelectSeq(ranking, LAMBDA m : m.memory_type = last.args[2])
            Ids(memories) == [i \in 1..Len(memories) |-> memories[i].memory_id]
        IN  /\ \A i \in 1..Len(last.ret) :
                  \A m \in GetMemory(compressed_memories, last.ret[i]) :
                      m.memory_type = last.args[2]
            /\ last.ret = Ids(Take(OfKind(UnfilteredRanking), last.args[3]))

\* a search for entries of kind error has returned one, and the same search
\* without the filter ranks an entry of another kind as well
C26_Witness ==
    /\ last.op = "search"
    /\ last.raised = "none"
    /\ last.args[2] = "error"
    /\ Len(last.ret) >= 1
    /\ \E i \in 1..Len(UnfilteredRanking) :
          UnfilteredRanking[i].memory_type # "error"

\* C27: a compress call that fails, because the id, the importance, the
\* compression or the entities cannot be computed, leaves the entries, the
\* recent ring, the three running totals and the summaries as they were.
C27_FailedCompressChangesNothing ==
    [][(last'.op = "compress" /\ last'.raised # "none")
          => UNCHANGED <<compressed_memories, recent_memories,
                         total_original_size, total_compressed_size,
                         compression_count, memory_summaries>>]_vars

\* a compress call with a relevance that is no number has failed on a store
\* that holds an entry
C27_Witness ==
    /\ last.op = "compress"
    /\ last.raised = "TypeError"
    /\ last.reply = "Error compressing memory"
    /\ compressed_memories # <<>>
    /\ recent_memories # <<>>

\* C28: the entry a compress call creates is ranked in the eviction of that
\* call: the id the call returns does not resolve afterwards exactly when
\* the new entry is among the (size - max_memory_size) entries of lowest
\* combined score at that eviction, equal scores ranked by id.
C28_NewEntryCanBeEvicted ==
    [][(last'.op = "compress" /\ last'.raised = "none") =>
        LET created ==
                [memory_id |-> last'.ret,
                 timestamp |-> now,
                 importance_score |->
                     ImportanceScore[last'.args[1].text][last'.args[2]][last'.args[3]]]
            before == {[memory_id |-> m.memory_id, timestamp |-> m.timestamp,
                        importance_score |-> m.importance_score] :
                          m \in {o \in Range(compressed_memories) :
                                    o.memory_id # last'.ret}}
            ranked == before \cup {created}
            to_remove == Cardinality(ranked) - max_memory_size
            lower == {o \in before :
                        \/ CombinedScore(o, now) < CombinedScore(created, now)
                        \/ /\ CombinedScore(o, now) = CombinedScore(created, now)
                           /\ IdLess(o.memory_id, created.memory_id)}
        IN  GetMemory(compressed_memories', last'.ret) = {}
                <=> Cardinality(lower) < to_remove]_vars

\* a compress call on a store that keeps entries has returned an id that
\* does not resolve, while an entry stored before it is still there
C28_Witness ==
    /\ last.op = "compress"
    /\ last.raised = "none"
    /\ max_memory_size >= 1
    /\ Len(compressed_memories) = max_memory_size
    /\ GetMemory(compressed_memories, last.ret) = {}

\* C29: batch_compress_memories is not atomic.  When item k is the first
\* that raises (it is no dict, or its content is no str, or its relevance no
\* number), the call returns the error reply and no count, and the store is
\* what compressing the items before k leaves: their ids were appended to
\* the recent ring, each was counted, their volumes were added to the
\* totals, and their entries are in the store where no eviction was due.
C29_BatchKeepsEarlierItems ==
    [][(last'.op = "batch_compress" /\ last'.raised # "none") =>
        LET memories == last'.args[1]
            Raises(item) ==
                \/ ~item.is_dict
                \/ /\ Truthy(item.content)
                   /\ \/ ~item.content.is_str
                      \/ item.context.has_relevance /\ ~item.context.numeric
            k == CHOOSE i \in 1..Len(memories) :
                    /\ Raises(memories[i])
                    /\ \A j \in 1..(i - 1) : ~Raises(memories[j])
            done == SelectSeq(Take(memories, k - 1),
                              LAMBDA item : Truthy(item.content))
            ids == [i \in 1..Len(done) |->
                       GenerateMemoryId(done[i].content.text, now)]
        IN  /\ \E i \in 1..Len(memories) : Raises(memories[i])
            /\ last'.reply = "Error in batch compression"
            /\ recent_memories' = recent_memories \o ids
            /\ compression_count' = compression_count + Len(done)
            /\ Len(compressed_memories) + Len(done) <= max_memory_size =>
                  /\ Range(ids) \subseteq MemoryIds(compressed_memories')
                  /\ total_original_size' = total_original_size
                        + SumSeq([i \in 1..Len(done) |->
                                     Len(done[i].content.text)])
            /\ \E out \in BatchCompressMemories(Store, max_memory_size, now,
                                                Take(memories, k - 1), <<>>) :
                  /\ out.raised = "none"
                  /\ out.memory_ids = ids
                  /\ Store' = out.store]_vars

\* a batch has failed at its second item, and the entry of its first item is
\* in the store, its id the last of the recent ring
C29_Witness ==
    /\ last.op = "batch_compress"
    /\ last.raised # "none"
    /\ Len(last.args[1]) = 2
    /\ Len(last.ret) = 1
    /\ GetMemory(compressed_memories, last.ret[1]) # {}
    /\ recent_memories[Len(recent_memories)] = last.ret[1]
    /\ compression_count >= 1

\* C30: a stored summary records as compressed_memories the whole list of
\* ids it was asked about, or the whole recent ring when it was given none,
\* the ids of evicted entries included, whatever number of entries it
\* summarized.
C30_SummaryRecordsAllIds ==
    /\ [][(last'.op = "summarize" /\ last'.ret # "") =>
            \A summary \in GetSummary(memory_summaries', last'.ret) :
                summary.compressed_memories = recent_memories]_vars
    /\ [](\A memory_ids \in GivenIds :
             \A out \in GenerateSummary(compressed_memories, memory_summaries,
                                        now, "task", memory_ids) :
                 \A summary \in GetSummary(out.memory_summaries, out.summary_id) :
                     summary.compressed_memories = memory_ids)

\* the summary just stored names more ids than entries were summarized: one
\* of its ids is the id of an evicted entry
C30_Witness ==
    /\ last.op = "summarize"
    /\ last.ret # ""
    /\ \E summary \in GetSummary(memory_summaries, last.ret) :
          /\ Len(summary.compressed_memories)
                > Len(Resolve(compressed_memories, summary.compressed_memories))
          /\ Len(Resolve(compressed_memories, summary.compressed_memories)) >= 1
          /\ summary.compressed_memories = recent_memories

\* C23: the recent ring never holds more than 100 ids.  A compress call
\* that returns appends the id it returns and, when the ring held 100,
\* drops the oldest; no other step but a reset changes the ring, so after n
\* compress calls since the last reset the ring holds the ids of the last
\* min(n, 100) calls in call order.  An eviction removes no id from the ring.
C23_RingHoldsLastHundred ==
    /\ [](Len(recent_memories) = Min(compression_count, 100))
    /\ [][(last'.op = "compress" /\ last'.raised = "none") =>
            LET called == Append(recent_memories, last'.ret)
            IN  recent_memories'
                    = SubSeq(called, Max(1, Len(called) - 99), Len(called))]_vars
    /\ [][last'.op \notin {"compress", "reset"} => UNCHANGED recent_memories]_vars
    /\ [][last'.op = "reset" => recent_memories' = <<>>]_vars

\* after 101 compress calls the ring holds 100 ids: the id of the first call
\* has left it, and the oldest id it holds is the id of an entry that was
\* evicted
C23_Witness ==
    /\ compression_count = 101
    /\ Len(recent_memories) = 100
    /\ max_memory_size = 1
    /\ recent_memories[1] \notin MemoryIds(compressed_memories)
    /\ recent_memories[2] \in MemoryIds(compressed_memories)

\* the key points generate_summary takes from one entry: the lines of its
\* compressed text that are longer than 20 characters when stripped
KeyPointsOf(memory) ==
    LET Long(stripped) ==
            KeptLines(stripped, {line \in Range(stripped) : Len(line) > 20})
    IN  Long(Stripped(StrSplit(memory.compressed_content, "\n")))

\* C25: every decision of a summary is "solution:" followed by one of the
\* last 3 key points of an entry of kind solution among the entries
\* summarized; an entry of kind solution contributes at most its own last 3
\* key points; a summary of entries none of which is of kind solution has
\* no decisions.
C25_DecisionsFromSolutions ==
    (last.op = "summarize" /\ last.ret # "") =>
        \A summary \in GetSummary(memory_summaries, last.ret) :
            LET selected == Resolve(compressed_memories,
                                    summary.compressed_memories)
                solutions == {i \in 1..Len(selected) :
                                 selected[i].memory_type = "solution"}
                Own(i) == TakeLast(KeyPointsOf(selected[i]), 3)
            IN  /\ \A d \in Range(summary.decisions) :
                      \E i \in solutions : \E point \in Range(Own(i)) :
                          d = "solution:" \o point
                /\ Len(summary.decisions)
                      <= SumSeq([i \in 1..Len(selected) |->
                                    IF i \in solutions THEN Len(Own(i)) ELSE 0])
                /\ solutions = {} => summary.decisions = <<>>

\* C24: when several callers use one store with the steps of their calls
\* interleaved, every get_memory_compression_stats reads running totals
\* that are the sums over the entries present at that moment, and when all
\* the calls have returned no += or -= of a total is lost: the totals are
\* again the sums over the entries stored.
C24_TotalsConsistentUnderThreads ==
    LET consistent ==
            /\ total_original_size = OriginalSizes(compressed_memories)
            /\ total_compressed_size = CompressedSizes(compressed_memories)
    IN  /\ last.op = "stats" => consistent
        /\ (\A c \in Callers : callers[c].pc = "done") => consistent

====
